---- MODULE Spec2Model ----
(***************************************************************************)
(* Model of the reclustering engine (src/src/reclustering.rs,              *)
(* run_reclustering) and of the dataset filter it uses                     *)
(* (src/src/team_utils.rs, create_dataset_filter_clause).                  *)
(*                                                                         *)
(* One call of run_reclustering is a linear pipeline:                      *)
(*   1. fetch the analyst's edges          (GetClient, FetchEdges)         *)
(*   2. build the graph of valid edges     (BuildGraph)                    *)
(*   3. fetch the whitelisted universe     (FetchUniverse)                 *)
(*   4. derive components and singletons   (DeriveClusters)                *)
(*   5. write the snapshot in one transaction                              *)
(*      (BeginTx, DeleteStatement three times, InsertClusters,             *)
(*       InsertGroups, InsertEdgeViz, Commit)                              *)
(* Every action is one awaited statement of the call (or the synchronous   *)
(* code between two of them), so that other sessions interleave wherever   *)
(* the call is suspended.                                                  *)
(*                                                                         *)
(* Rust Option<T> is modelled as a sequence of length <= 1: None is <<>>,  *)
(* Some(x) is <<x>>.  f64 values are integers in hundredths (1.0 = 100).   *)
(* A UUID is a natural number drawn from a counter (fresh on every draw).  *)
(* A SQL table is a bag of rows.                                           *)
(***************************************************************************)
EXTENDS Integers, Sequences, FiniteSets, Bags, TLC

VARIABLES
  edgeTable,            \* "<TEAM_SCHEMA>"."<user>_<type>_edge_visualization": bag of rows
  publicTable,          \* public.entity / public.service: bag of [id, source_system]
  whitelist,            \* team_info.whitelisted_datasets
  clusterTbl,           \* committed rows of export_cluster_table
  groupTbl,             \* committed rows of export_group_table
  edgeVizTbl,           \* committed rows of export_edge_table
  pc,                   \* position of the call in run_reclustering
  result,               \* "none" while running, then "Ok" or the error returned
  all_edges,            \* Vec<RawEdgeVisualization>
  graph,                \* UnGraph: [nodes : Seq(id), edges : Seq(<<a, b>>)]
  node_map,             \* HashMap<String, NodeIndex>
  valid_edges_for_viz,  \* Vec<(id1, id2, weight, details, status)>
  original_rows,        \* rows of the universe query
  clusters,             \* HashMap<cluster_id, HashSet<id>>
  node_to_cluster_id,   \* HashMap<id, cluster_id>
  tx,                   \* the open transaction's view of the three tables
  edge_batch,           \* the edge_*_batch vectors, as one Vec of rows
  nextUuid,             \* source of fresh UUIDs
  runs,                 \* number of calls of run_reclustering started
  client,               \* the pooled connection of the call: "none" or "held"
  user_prefix,          \* argument user_prefix, split at its underscores
  entity_or_service,    \* argument entity_or_service
  timestamp_suffix,     \* argument timestamp_suffix, split at its underscores
  db,                   \* the export schema: table name -> committed rows
  other,                \* a second call in progress (its arguments and locals), or None
  seen,                 \* what an export reader's query returned, or None
  dfs,                  \* the locals of step 4 while it runs one loop iteration at a time
  start_db              \* the edge table and the public table as they stood when the
                        \* edge query of the call ran (before it has run: when the call began)
VARIABLE
  prov                  \* the position of create_timestamped_tables: the table of
                        \* tables_to_copy it is at (i), the statement that comes next
                        \* (at), constraint_rows still to drop (found), the check
                        \* constraints of the export tables (checks) and of the team
                        \* group tables (team), and client_for_tables (client)

vars == <<edgeTable, publicTable, whitelist, clusterTbl, groupTbl, edgeVizTbl,
          pc, result, all_edges, graph, node_map, valid_edges_for_viz,
          original_rows, clusters, node_to_cluster_id, tx, edge_batch,
          nextUuid, runs, client, user_prefix, entity_or_service,
          timestamp_suffix, db, other, seen, dfs, start_db, prov>>

\* What a step of the call leaves alone: its arguments, the other call,
\* the reader, the stepwise locals of step 4, the tables at the call, the
\* provisioning that came before it.
context == <<user_prefix, entity_or_service, timestamp_suffix, other, seen,
             dfs, start_db, prov>>

dbInputs == <<edgeTable, publicTable, whitelist>>
\* The committed export tables: the three of the call, and the schema
\* that holds them under their names.
outTables == <<clusterTbl, groupTbl, edgeVizTbl, db>>

----------------------------------------------------------------------------
(* Bounds of the model *)

MaxEdges == 2
MaxRuns == 2
MaxWhitelist == 2
MaxStart == 3
MaxDfsEdges == 3

----------------------------------------------------------------------------
(* Option, sequences, bags *)

None == <<>>
Some(x) == <<x>>

\* Option::unwrap_or
UnwrapOr(o, d) == IF o = None THEN d ELSE o[1]

\* Option<String>::unwrap_or_default
UnwrapOrDefault(o) == UnwrapOr(o, "")

Range(s) == {s[i] : i \in DOMAIN s}

RECURSIVE SeqToBag(_)
SeqToBag(s) ==
  IF s = <<>> THEN EmptyBag ELSE SetToBag({Head(s)}) (+) SeqToBag(Tail(s))

\* All sequences of length at most n over S
SeqsUpTo(S, n) == UNION {[1..k -> S] : k \in 0..n}

\* The orders in which the rows of a bag can be returned by a query
OrdersOfBag(b) ==
  {s \in [1..BagCardinality(b) -> BagToSet(b)] : SeqToBag(s) = b}

\* The orders in which the elements of a set can be iterated
OrdersOfSet(S) ==
  {s \in [1..Cardinality(S) -> S] : Range(s) = S}

----------------------------------------------------------------------------
(* Statuses and rows *)

PENDING_REVIEW == "PENDING_REVIEW"
CONFIRMED_MATCH == "CONFIRMED_MATCH"
CONFIRMED_NON_MATCH == "CONFIRMED_NON_MATCH"

\* f64 1.0, the default edge weight, in hundredths
DefaultWeight == 100

\* the placeholder average_coherence_score 0.8, in hundredths
PlaceholderCoherence == 80

\* A row of the analyst's edge table as decoded into RawEdgeVisualization.
EdgeRow(i1, i2, st, det) ==
  [id_1 |-> i1, id_2 |-> i2, confirmed_status |-> st, details |-> det]

----------------------------------------------------------------------------
(* create_dataset_filter_clause and the universe query *)

\* As create_dataset_filter_clause, with the placeholders numbered from
\* param_start_index + 1.
create_dataset_filter_clause_shifted(whitelisted_datasets, param_start_index) ==
  IF whitelisted_datasets = <<>>
    THEN [clause |-> "1=1", placeholders |-> <<>>, params |-> <<>>]
    ELSE [clause |-> "ANY",
          placeholders |-> [i \in 1..Len(whitelisted_datasets) |->
                              param_start_index + i],
          params |-> whitelisted_datasets]

\* The clause is "1=1" or "<alias>.<column> = ANY(ARRAY[$i, ...])";
\* placeholders holds the numbers i of the "$i" in order.
create_dataset_filter_clause(whitelisted_datasets, param_start_index) ==
  IF whitelisted_datasets = <<>>
    THEN [clause |-> "1=1", placeholders |-> <<>>, params |-> <<>>]
    ELSE [clause |-> "ANY",
          placeholders |-> [i \in 1..Len(whitelisted_datasets) |->
                              param_start_index + i - 1],
          params |-> whitelisted_datasets]

\* WHERE <clause> evaluated on one row; "$i" is bound to params[i].
RowPassesFilter(row, f) ==
  \/ f.clause = "1=1"
  \/ \E k \in DOMAIN f.placeholders :
       /\ f.placeholders[k] \in DOMAIN f.params
       /\ row.source_system = f.params[f.placeholders[k]]

\* SELECT id FROM public.<type> t WHERE <dataset_filter>: one id per row that
\* passes, so an id held by several rows is returned once for each of them.
UniverseQuery(table, wl) ==
  LET f == create_dataset_filter_clause(wl, 1)
      pass == {x \in BagToSet(table) : RowPassesFilter(x, f)}
  IN [i \in {r.id : r \in pass} |->
        BagCardinality([r \in {x \in pass : x.id = i} |-> table[r]])]

----------------------------------------------------------------------------
(* Step 2: the graph of valid edges *)

EmptyGraph == [nodes |-> <<>>, edges |-> <<>>]

\* As IsValidConnection, with CONFIRMED_NON_MATCH accepted.
IsValidConnectionAll(status) ==
  status = PENDING_REVIEW \/ status = CONFIRMED_MATCH \/ status = CONFIRMED_NON_MATCH

\* let is_valid_connection = status == "PENDING_REVIEW" || status == "CONFIRMED_MATCH"
IsValidConnection(status) ==
  status = PENDING_REVIEW \/ status = CONFIRMED_MATCH

\* serde_json Value::as_f64 on a tagged JSON value
AsF64(v) == IF "num" \in DOMAIN v THEN Some(v.num) ELSE None

\* Value::get(key) on a JSON object (a record)
JsonGet(obj, key) == IF key \in DOMAIN obj THEN Some(obj[key]) ELSE None

\* edge.details.and_then(get "calculated_edge_weight").and_then(as_f64).unwrap_or(1.0)
EdgeWeight(details) ==
  IF details = None THEN DefaultWeight
  ELSE LET w == JsonGet(details[1], "calculated_edge_weight")
       IN IF w = None THEN DefaultWeight ELSE UnwrapOr(AsF64(w[1]), DefaultWeight)

\* As EdgeDetails, with the payload always synthesized from the weight.
EdgeDetailsFromWeight(details) ==
  [contributing_methods |-> [arr |-> <<>>],
   total_confidence |-> [num |-> EdgeWeight(details)],
   pre_rl_total_confidence |-> [num |-> EdgeWeight(details)],
   calculated_edge_weight |-> [num |-> EdgeWeight(details)]]

\* edge.details.clone().unwrap_or_else(|| json!({...}))
EdgeDetails(details) ==
  IF details = None
    THEN [contributing_methods |-> [arr |-> <<>>],
          total_confidence |-> [num |-> EdgeWeight(details)],
          pre_rl_total_confidence |-> [num |-> EdgeWeight(details)],
          calculated_edge_weight |-> [num |-> EdgeWeight(details)]]
    ELSE details[1]

\* node_map.entry(id).or_insert_with(|| graph.add_node(id))
EntryOrInsertNode(st, id) ==
  IF id \in DOMAIN st.node_map THEN st
  ELSE [st EXCEPT !.graph.nodes = Append(@, id),
                  !.node_map = @ @@ (id :> Len(st.graph.nodes) + 1)]

\* As AddEdge, without the test for an empty id.
AddEdgeNoSkip(st, edge) ==
  LET id1 == UnwrapOrDefault(edge.id_1)
      id2 == UnwrapOrDefault(edge.id_2)
      status == UnwrapOr(edge.confirmed_status, PENDING_REVIEW)
  IN IF ~IsValidConnection(status) THEN st
     ELSE LET s2 == EntryOrInsertNode(EntryOrInsertNode(st, id1), id2)
          IN [s2 EXCEPT
                !.graph.edges = Append(@, <<s2.node_map[id1], s2.node_map[id2]>>),
                !.viz = Append(@, [id1 |-> id1, id2 |-> id2,
                                   weight |-> EdgeWeight(edge.details),
                                   details |-> EdgeDetails(edge.details),
                                   status |-> status])]

\* As AddEdge, with an absent status read as CONFIRMED_NON_MATCH.
AddEdgeAbsentSevered(st, edge) ==
  LET id1 == UnwrapOrDefault(edge.id_1)
      id2 == UnwrapOrDefault(edge.id_2)
      status == UnwrapOr(edge.confirmed_status, CONFIRMED_NON_MATCH)
  IN IF id1 = "" \/ id2 = "" THEN st
     ELSE IF ~IsValidConnection(status) THEN st
     ELSE LET s2 == EntryOrInsertNode(EntryOrInsertNode(st, id1), id2)
          IN [s2 EXCEPT
                !.graph.edges = Append(@, <<s2.node_map[id1], s2.node_map[id2]>>),
                !.viz = Append(@, [id1 |-> id1, id2 |-> id2,
                                   weight |-> EdgeWeight(edge.details),
                                   details |-> EdgeDetails(edge.details),
                                   status |-> status])]

\* One iteration of the loop over all_edges.
AddEdge(st, edge) ==
  LET id1 == UnwrapOrDefault(edge.id_1)
      id2 == UnwrapOrDefault(edge.id_2)
      status == UnwrapOr(edge.confirmed_status, PENDING_REVIEW)
  IN IF id1 = "" \/ id2 = "" THEN st
     ELSE IF ~IsValidConnection(status) THEN st
     ELSE LET s2 == EntryOrInsertNode(EntryOrInsertNode(st, id1), id2)
          IN [s2 EXCEPT
                !.graph.edges = Append(@, <<s2.node_map[id1], s2.node_map[id2]>>),
                !.viz = Append(@, [id1 |-> id1, id2 |-> id2,
                                   weight |-> EdgeWeight(edge.details),
                                   details |-> EdgeDetails(edge.details),
                                   status |-> status])]

RECURSIVE BuildFrom(_, _)
BuildFrom(edges, st) ==
  IF edges = <<>> THEN st ELSE BuildFrom(Tail(edges), AddEdge(st, Head(edges)))

\* The loop "for edge in &all_edges" from the empty graph.
BuildGraphOf(edges) ==
  BuildFrom(edges, [graph |-> EmptyGraph, node_map |-> <<>>, viz |-> <<>>])

----------------------------------------------------------------------------
(* Step 4: connected components and singleton completion *)

\* petgraph's undirected neighbors(a): the targets of a's outgoing edge list,
\* newest edge first, then the sources of its incoming edge list, newest
\* first, self-loops skipped in the incoming list.
RECURSIVE NeighborsOut(_, _, _)
NeighborsOut(g, n, e) ==
  IF e = 0 THEN <<>>
  ELSE (IF g.edges[e][1] = n THEN <<g.edges[e][2]>> ELSE <<>>)
         \o NeighborsOut(g, n, e - 1)

RECURSIVE NeighborsIn(_, _, _)
NeighborsIn(g, n, e) ==
  IF e = 0 THEN <<>>
  ELSE (IF g.edges[e][2] = n /\ g.edges[e][1] # n THEN <<g.edges[e][1]>> ELSE <<>>)
         \o NeighborsIn(g, n, e - 1)

\* As Neighbors, without the incoming edge list.
NeighborsOutOnly(g, n) == NeighborsOut(g, n, Len(g.edges))

Neighbors(g, n) ==
  NeighborsOut(g, n, Len(g.edges)) \o NeighborsIn(g, n, Len(g.edges))

\* As PushUnvisited, with no neighbor pushed.
PushUnvisitedNone(g, stack, nbrs, visited) == stack

\* for neighbor in graph.neighbors(cur) { if !visited.contains(..) { stack.push(..) } }
RECURSIVE PushUnvisited(_, _, _, _)
PushUnvisited(g, stack, nbrs, visited) ==
  IF nbrs = <<>> THEN stack
  ELSE PushUnvisited(g,
         IF g.nodes[Head(nbrs)] \in visited THEN stack ELSE Append(stack, Head(nbrs)),
         Tail(nbrs), visited)

\* As VisitNode, without the insert into node_to_cluster_id.
VisitNodeNoMap(d, id, cid) ==
  [d EXCEPT !.visited = @ \cup {id},
            !.current = @ \cup {id}]

\* visited.insert(id) succeeded: record the node in the current cluster
VisitNode(d, id, cid) ==
  [d EXCEPT !.visited = @ \cup {id},
            !.current = @ \cup {id},
            !.n2c = (id :> cid) @@ @]

\* while let Some(current_node_idx) = stack.pop() { ... }
RECURSIVE DfsLoop(_, _, _, _)
DfsLoop(g, cid, stack, d) ==
  IF stack = <<>> THEN d
  ELSE LET cur == stack[Len(stack)]
           rest == SubSeq(stack, 1, Len(stack) - 1)
           id == g.nodes[cur]
       IN IF id \in d.visited THEN DfsLoop(g, cid, rest, d)
          ELSE LET d2 == VisitNode(d, id, cid)
               IN DfsLoop(g, cid,
                          PushUnvisited(g, rest, Neighbors(g, cur), d2.visited), d2)

\* for node_idx in graph.node_indices() { if !visited.contains(..) { ... } }
RECURSIVE ComponentsFrom(_, _, _)
ComponentsFrom(g, i, d) ==
  IF i > Len(g.nodes) THEN d
  ELSE IF g.nodes[i] \in d.visited THEN ComponentsFrom(g, i + 1, d)
  ELSE LET cid == d.uuid + 1
           d2 == DfsLoop(g, cid, <<i>>, [d EXCEPT !.current = {}, !.uuid = cid])
       IN ComponentsFrom(g, i + 1,
            [d2 EXCEPT !.clusters = (cid :> d2.current) @@ @])

\* As CompleteSingletons, without the contains_key test.
RECURSIVE CompleteSingletonsNoCheck(_, _, _)
CompleteSingletonsNoCheck(rows, nmap, d) ==
  IF rows = <<>> THEN d
  ELSE LET cid == d.uuid + 1
       IN CompleteSingletonsNoCheck(Tail(rows), nmap,
            [d EXCEPT !.uuid = cid,
                      !.clusters = (cid :> {Head(rows)}) @@ @,
                      !.n2c = (Head(rows) :> cid) @@ @])

\* As CompleteSingletons, with one cluster_id minted before the loop.
RECURSIVE CompleteSingletonsSharedId(_, _, _)
CompleteSingletonsSharedId(rows, nmap, d) ==
  IF rows = <<>> THEN d
  ELSE LET id == Head(rows)
           cid == d.uuid + 1
       IN IF id \in DOMAIN nmap THEN CompleteSingletonsSharedId(Tail(rows), nmap, d)
          ELSE CompleteSingletonsSharedId(Tail(rows), nmap,
                 [d EXCEPT !.clusters = (cid :> {id}) @@ @,
                           !.n2c = (id :> cid) @@ @])

\* for row in original_rows { if !node_map.contains_key(&original_id) { ... } }
RECURSIVE CompleteSingletons(_, _, _)
CompleteSingletons(rows, nmap, d) ==
  IF rows = <<>> THEN d
  ELSE LET id == Head(rows)
       IN IF id \in DOMAIN nmap THEN CompleteSingletons(Tail(rows), nmap, d)
          ELSE LET cid == d.uuid + 1
               IN CompleteSingletons(Tail(rows), nmap,
                    [d EXCEPT !.uuid = cid,
                              !.clusters = (cid :> {id}) @@ @,
                              !.n2c = (id :> cid) @@ @])

\* Step 4 as a whole, from the UUID counter value uuid.
DeriveClustersOf(g, nmap, rows, uuid) ==
  CompleteSingletons(rows, nmap,
    ComponentsFrom(g, 1, [visited |-> {}, current |-> {}, clusters |-> <<>>,
                          n2c |-> <<>>, uuid |-> uuid]))

----------------------------------------------------------------------------
(* Step 5: the rows of the snapshot *)

\* One row of the cluster batch (name and description are display strings
\* formatted from the id and the count).
ClusterRow(cid, member_ids) ==
  [id |-> cid,
   entity_count |-> Cardinality(member_ids),
   group_count |-> 0,
   average_coherence_score |-> PlaceholderCoherence,
   was_reviewed |-> TRUE]

\* As GroupRow, with the id of the copied team cluster in place of cid.
GroupRowLegacyCluster(a, b, cid, method) ==
  [id_1 |-> a, id_2 |-> b, group_cluster_id |-> 0,
   method_type |-> method, confirmed_status |-> "CONFIRMED"]

GroupRow(a, b, cid, method) ==
  [id_1 |-> a, id_2 |-> b, group_cluster_id |-> cid,
   method_type |-> method, confirmed_status |-> "CONFIRMED"]

\* As InnerStart, with the inner loop starting at i.
InnerStartSelf(i) == i

\* for j in (i + 1)..member_vec.len()
InnerStart(i) == i + 1

RECURSIVE PairInner(_, _, _, _)
PairInner(v, cid, i, j) ==
  IF j > Len(v) THEN <<>>
  ELSE <<GroupRow(v[i], v[j], cid, "USER_REVIEW_CONNECTED")>>
         \o PairInner(v, cid, i, j + 1)

RECURSIVE PairOuter(_, _, _)
PairOuter(v, cid, i) ==
  IF i > Len(v) THEN <<>>
  ELSE PairInner(v, cid, i, InnerStart(i)) \o PairOuter(v, cid, i + 1)

\* As GroupRowsOf, with the pairwise loops for every cluster size.
GroupRowsOfPairs(cid, member_vec) == PairOuter(member_vec, cid, 1)

\* The group rows of one cluster; member_vec is the cluster's HashSet in
\* the order its iterator returned it.
GroupRowsOf(cid, member_vec) ==
  IF Len(member_vec) = 1
    THEN <<GroupRow(member_vec[1], member_vec[1], cid, "USER_REVIEW_ISOLATED")>>
    ELSE PairOuter(member_vec, cid, 1)

\* The iteration orders of every cluster's member set.
MemberOrders(cl) ==
  {f \in [DOMAIN cl -> UNION {OrdersOfSet(cl[c]) : c \in DOMAIN cl}] :
     \A c \in DOMAIN cl : Range(f[c]) = cl[c]}

RECURSIVE BagOverSet(_, _, _)
BagOverSet(S, cl, ord) ==
  IF S = {} THEN EmptyBag
  ELSE LET c == CHOOSE x \in S : TRUE
       IN SeqToBag(GroupRowsOf(c, ord[c])) (+) BagOverSet(S \ {c}, cl, ord)

\* All group rows of a run, as the table receives them.
GroupBatch(cl, ord) == BagOverSet(DOMAIN cl, cl, ord)

ClusterBatch(cl) ==
  IF DOMAIN cl = {} THEN EmptyBag
  ELSE SetToBag({ClusterRow(c, cl[c]) : c \in DOMAIN cl})

\* node_to_cluster_id.get(&id1).or_else(|| node_to_cluster_id.get(&id2))
ResolveCluster(n2c, id1, id2) ==
  IF id1 \in DOMAIN n2c THEN Some(n2c[id1])
  ELSE IF id2 \in DOMAIN n2c THEN Some(n2c[id2])
  ELSE None

\* As EdgeVizRow, with the id of the copied team cluster in place of cid.
EdgeVizRowLegacyCluster(e, cid) ==
  [cluster_id |-> 0, id_1 |-> e.id1, id_2 |-> e.id2,
   edge_weight |-> e.weight, details |-> e.details,
   pipeline_run_id |-> "user_export_pipeline",
   confirmed_status |-> e.status, was_reviewed |-> TRUE]

\* As EdgeVizRow, with the endpoints exchanged.
EdgeVizRowSwapped(e, cid) ==
  [cluster_id |-> cid, id_1 |-> e.id2, id_2 |-> e.id1,
   edge_weight |-> e.weight, details |-> e.details,
   pipeline_run_id |-> "user_export_pipeline",
   confirmed_status |-> e.status, was_reviewed |-> TRUE]

\* One row of the edge batch.
EdgeVizRow(e, cid) ==
  [cluster_id |-> cid, id_1 |-> e.id1, id_2 |-> e.id2,
   edge_weight |-> e.weight, details |-> e.details,
   pipeline_run_id |-> "user_export_pipeline",
   confirmed_status |-> e.status, was_reviewed |-> TRUE]

\* for (id1, id2, weight, details, status) in valid_edges_for_viz { ... }
\* The loop returns with the IntegrityError at the first edge that does not resolve.
RECURSIVE EdgeBatchFrom(_, _, _)
EdgeBatchFrom(viz, n2c, acc) ==
  IF viz = <<>> THEN [ok |-> TRUE, rows |-> acc]
  ELSE LET e == Head(viz)
           c == ResolveCluster(n2c, e.id1, e.id2)
       IN IF c = None THEN [ok |-> FALSE, rows |-> acc]
          ELSE EdgeBatchFrom(Tail(viz), n2c, Append(acc, EdgeVizRow(e, c[1])))

\* No row of any of the three tables.
NoRows == [cluster |-> EmptyBag, group |-> EmptyBag, edge |-> EmptyBag]

\* A transaction: the rows it sees in the three tables (cluster, group,
\* edge), the committed rows it has deleted (del) and the rows it has
\* inserted (ins), both invisible to others until it commits, and the
\* snapshot of a DELETE that waits for a row lock (wait).
NoTx ==
  [open |-> FALSE, cluster |-> EmptyBag, group |-> EmptyBag, edge |-> EmptyBag,
   del |-> NoRows, ins |-> NoRows, wait |-> None]

----------------------------------------------------------------------------
(* Table names.  A string is the sequence of the pieces between its        *)
(* underscores ("u_x" is <<"u", "x">>), so format!("{}_{}", a, b) is the    *)
(* concatenation of the pieces of a and of b.                              *)

\* format!("{}_{}_edge_visualization", user_prefix, entity_or_service)
edge_table_name(p, t) == p \o <<t, "edge", "visualization">>

\* format!("{}_{}_edge_visualization_export_{}", ...)
export_edge_table(p, t, ts) == p \o <<t, "edge", "visualization", "export">> \o ts

\* format!("{}_{}_group_export_{}", ...)
export_group_table(p, t, ts) == p \o <<t, "group", "export">> \o ts

\* As export_cluster_table, with the record type fixed to "entity".
export_cluster_table_entity(p, t, ts) ==
  p \o <<"entity", "group", "cluster", "export">> \o ts

\* format!("{}_{}_group_cluster_export_{}", ...)
export_cluster_table(p, t, ts) == p \o <<t, "group", "cluster", "export">> \o ts

\* The three names one call of run_reclustering writes.
RunTables(p, t, ts) ==
  [cluster |-> export_cluster_table(p, t, ts),
   group |-> export_group_table(p, t, ts),
   edge |-> export_edge_table(p, t, ts)]

\* create_timestamped_tables: the team tables it copies
tables_to_copy ==
  << <<"entity", "group">>, <<"entity", "group", "cluster">>,
     <<"entity", "edge", "visualization">>,
     <<"service", "group">>, <<"service", "group", "cluster">>,
     <<"service", "edge", "visualization">> >>

\* format!("{}_{}_export_{}", user_prefix, table_name, timestamp_suffix)
target_table_name(p, table_name, ts) == p \o table_name \o <<"export">> \o ts

\* The three names fetch_organization_export_data (t = "entity") and
\* fetch_service_export_data (t = "service") read.
FetchTables(p, opinion_name, t, ts) ==
  [cluster |-> p \o opinion_name \o <<t, "group", "cluster", "export">> \o ts,
   edge |-> p \o opinion_name \o <<t, "edge", "visualization", "export">> \o ts,
   group |-> p \o opinion_name \o <<t, "group", "export">> \o ts]

----------------------------------------------------------------------------
(* Input domains *)

Records == {"A", "B", "C"}

ReviewStatuses == {PENDING_REVIEW, CONFIRMED_MATCH, CONFIRMED_NON_MATCH}

\* Every edge between records (self-loops and both endpoint orders
\* included) that asserts or severs a match, without a details payload.
StructureEdges ==
  {EdgeRow(Some(x), Some(y), Some(s), None) :
     x \in Records, y \in Records, s \in {CONFIRMED_MATCH, CONFIRMED_NON_MATCH}}

SomeDetails == [calculated_edge_weight |-> [num |-> 250]]

\* Rows the decoder also accepts: a NULL or empty endpoint, a NULL status,
\* a status outside the three review statuses, a details payload.
AnomalousEdges ==
  {EdgeRow(None, Some("A"), Some(CONFIRMED_MATCH), None),
   EdgeRow(Some("A"), Some(""), Some(PENDING_REVIEW), None),
   EdgeRow(Some("A"), Some("B"), None, None),
   EdgeRow(Some("B"), Some("C"), Some("REJECTED"), None),
   EdgeRow(Some("A"), Some("C"), Some(CONFIRMED_MATCH), Some(SomeDetails))}

\* The anomalous rows among a sample of ordinary ones.
RowEdges ==
  AnomalousEdges \cup
  {EdgeRow(Some("A"), Some("B"), Some(PENDING_REVIEW), None),
   EdgeRow(Some("B"), Some("C"), Some(CONFIRMED_MATCH), None),
   EdgeRow(Some("B"), Some("A"), Some(CONFIRMED_NON_MATCH), None),
   EdgeRow(Some("C"), Some("C"), Some(PENDING_REVIEW), None),
   EdgeRow(Some("C"), Some("A"), Some(CONFIRMED_NON_MATCH), None)}

PublicRecords ==
  SetToBag({[id |-> "A", source_system |-> "ds1"],
            [id |-> "B", source_system |-> "ds1"],
            [id |-> "C", source_system |-> "ds2"]})

Whitelists == {<<>>, <<"ds1">>, <<"ds2">>, <<"ds3">>}

\* Rows of the team tables that no call of the model reads: the team's own
\* clustering, and one severed edge.
LegacyClusters == SetToBag({ClusterRow(0, {"A", "B"})})
LegacyGroups == SetToBag({GroupRow("A", "B", 0, "name")})
LegacyEdgeViz ==
  SetToBag({EdgeRow(Some("A"), Some("B"), Some(CONFIRMED_NON_MATCH), None)})

\* format!(r#""{}"."{}_{}""#, TEAM_SCHEMA, user_prefix, table_name)
source_table(p, table_name) == p \o table_name

\* The rows of the team table `name`, where `team` holds the team tables
\* that calls of run_reclustering read (their edge tables) under their names.
TeamRows(name, team) ==
  IF name \in DOMAIN team THEN team[name]
  ELSE IF name[Len(name)] = "cluster" THEN LegacyClusters
  ELSE IF name[Len(name)] = "group" THEN LegacyGroups
  ELSE LegacyEdgeViz

\* The loop of create_timestamped_tables from table i on: DROP TABLE IF
\* EXISTS, CREATE TABLE, INSERT INTO ... SELECT * FROM the team table.
RECURSIVE CopyTables(_, _, _, _, _)
CopyTables(p, ts, i, team, schema) ==
  IF i > Len(tables_to_copy) THEN schema
  ELSE CopyTables(p, ts, i + 1, team,
         (target_table_name(p, tables_to_copy[i], ts)
            :> TeamRows(source_table(p, tables_to_copy[i]), team))
           @@ schema)

\* The export schema after create_timestamped_tables(client, p, ts) has
\* returned Ok.
create_timestamped_tables(p, ts, team, schema) == CopyTables(p, ts, 1, team, schema)

UserPrefixes == {<<"u">>, <<"u", "x">>}

RecordTypes == {"entity", "service"}

\* Local::now().format("%Y%m%d%H%M%S")
Timestamps == {<<"20260101120000">>}

----------------------------------------------------------------------------
(* State machine *)

\* Step 4 not begun: visited, clusters and node_to_cluster_id are empty.
NoDfs ==
  [phase |-> "idle", i |-> 0, cid |-> 0, stack |-> <<>>, inserted |-> <<>>,
   d |-> [visited |-> {}, current |-> {}, clusters |-> <<>>, n2c |-> <<>>,
          uuid |-> 0]]

\* The tables the call reads, as they are now.
TablesRead == [edgeTable |-> edgeTable, publicTable |-> publicTable]

\* The team tables the calls read, under their names: the edge table of
\* the call and that of the other call.
TeamSchema ==
  LET own == (edge_table_name(user_prefix, entity_or_service) :> edgeTable)
  IN IF other = None THEN own
     ELSE own @@ (edge_table_name(other[1].user_prefix, other[1].entity_or_service)
                    :> other[1].edgeTable)

\* create_timestamped_tables has returned Ok.
Provisioned ==
  [i |-> 0, at |-> "returned", found |-> <<>>, checks |-> <<>>, team |-> {},
   client |-> "none"]

\* The locals of a call that has not begun.
RunLocals ==
  /\ dfs = NoDfs
  /\ start_db = TablesRead
  /\ result = "none"
  /\ all_edges = <<>>
  /\ graph = EmptyGraph
  /\ node_map = <<>>
  /\ valid_edges_for_viz = <<>>
  /\ original_rows = <<>>
  /\ clusters = <<>>
  /\ node_to_cluster_id = <<>>
  /\ tx = NoTx
  /\ edge_batch = <<>>
  /\ client = "none"

RunLocalInit ==
  /\ pc = "start"
  /\ prov = Provisioned
  /\ RunLocals

\* The state in which run_reclustering is called: create_timestamped_tables
\* has provisioned the export tables of the analyst with copies of the
\* team tables.
InitCall(prefixes, types, edgeTables, tables, wls) ==
  /\ user_prefix \in prefixes
  /\ entity_or_service \in types
  /\ timestamp_suffix \in Timestamps
  /\ edgeTable \in edgeTables
  /\ publicTable \in tables
  /\ whitelist \in wls
  /\ other = None
  /\ db = create_timestamped_tables(user_prefix, timestamp_suffix, TeamSchema, <<>>)
  /\ clusterTbl = db[export_cluster_table(user_prefix, entity_or_service, timestamp_suffix)]
  /\ groupTbl = db[export_group_table(user_prefix, entity_or_service, timestamp_suffix)]
  /\ edgeVizTbl = db[export_edge_table(user_prefix, entity_or_service, timestamp_suffix)]
  /\ seen = None
  /\ nextUuid = 0
  /\ runs = 1
  /\ RunLocalInit

InitWith(edgeTables, tables, wls) ==
  InitCall({<<"u">>}, {"entity"}, edgeTables, tables, wls)

Init ==
  InitWith({SeqToBag(s) : s \in SeqsUpTo(StructureEdges, MaxEdges)},
           {PublicRecords}, Whitelists)

\* pool.get(): the connection stays in the local `client` until the call
\* returns
GetClient ==
  /\ pc = "start"
  /\ client' = "held"
  /\ pc' = "connected"
  /\ UNCHANGED <<context, dbInputs, outTables, result, all_edges, graph, node_map,
                 valid_edges_for_viz, original_rows, clusters, node_to_cluster_id,
                 tx, edge_batch, nextUuid, runs>>

\* 1. the edge query and the decoding of its rows, which come in any order
FetchEdges ==
  /\ pc = "connected"
  /\ \E rows \in OrdersOfBag(edgeTable) : all_edges' = rows
  /\ start_db' = TablesRead
  /\ pc' = "fetched"
  /\ UNCHANGED <<user_prefix, entity_or_service, timestamp_suffix, other, seen, dfs,
                 prov, client, dbInputs, outTables, result, graph, node_map,
                 valid_edges_for_viz, original_rows, clusters, node_to_cluster_id,
                 tx, edge_batch, nextUuid, runs>>

\* 2. the loop over all_edges
BuildGraph ==
  /\ pc = "fetched"
  /\ LET b == BuildGraphOf(all_edges)
     IN /\ graph' = b.graph
        /\ node_map' = b.node_map
        /\ valid_edges_for_viz' = b.viz
  /\ pc' = "built"
  /\ UNCHANGED <<context, client, dbInputs, outTables, result, all_edges, original_rows, clusters,
                 node_to_cluster_id, tx, edge_batch, nextUuid, runs>>

\* 3. the universe query; its rows come in any order
FetchUniverse ==
  /\ pc = "built"
  /\ \E rows \in OrdersOfBag(UniverseQuery(publicTable, whitelist)) :
       original_rows' = rows
  /\ pc' = "universe"
  /\ UNCHANGED <<context, client, dbInputs, outTables, result, all_edges, graph, node_map,
                 valid_edges_for_viz, clusters, node_to_cluster_id, tx, edge_batch,
                 nextUuid, runs>>

\* 4. components, then singletons; original_rows is consumed by its loop
DeriveClusters ==
  /\ pc = "universe"
  /\ LET d == DeriveClustersOf(graph, node_map, original_rows, nextUuid)
     IN /\ clusters' = d.clusters
        /\ node_to_cluster_id' = d.n2c
        /\ nextUuid' = d.uuid
  /\ original_rows' = <<>>
  /\ pc' = "derived"
  /\ UNCHANGED <<context, client, dbInputs, outTables, result, all_edges, graph, node_map,
                 valid_edges_for_viz, tx, edge_batch, runs>>

\* 5. client.transaction()
BeginTx ==
  /\ pc = "derived"
  /\ tx' = [NoTx EXCEPT !.open = TRUE, !.cluster = clusterTbl,
                        !.group = groupTbl, !.edge = edgeVizTbl]
  /\ pc' = "tx"
  /\ UNCHANGED <<context, client, dbInputs, outTables, result, all_edges, graph, node_map,
                 valid_edges_for_viz, original_rows, clusters, node_to_cluster_id,
                 edge_batch, nextUuid, runs>>

\* The committed rows of the call's three tables.
CommittedNow == [cluster |-> clusterTbl, group |-> groupTbl, edge |-> edgeVizTbl]

\* What a statement of transaction t sees (READ COMMITTED): the rows
\* committed when it executes, less those t deleted, plus those t inserted.
StatementView(t, committed) ==
  [t EXCEPT !.cluster = (committed.cluster (-) t.del.cluster) (+) t.ins.cluster,
            !.group = (committed.group (-) t.del.group) (+) t.ins.group,
            !.edge = (committed.edge (-) t.del.edge) (+) t.ins.edge]

\* The three tables in the order of the DELETE statements.
TableKeys == <<"cluster", "group", "edge">>

\* The positions before, between and after the three DELETE statements.
DeletePc == <<"tx", "del1", "del2", "cleared">>

\* The rows of a that are also in b.
BagMin(a, b) ==
  [r \in BagToSet(a) \cap BagToSet(b) |-> IF a[r] < b[r] THEN a[r] ELSE b[r]]

\* Another call's open transaction holds the lock of a row of table f.
Locked(f) ==
  /\ other # None
  /\ other[1].tx.open
  /\ RunTables(other[1].user_prefix, other[1].entity_or_service,
               other[1].timestamp_suffix)[f]
       = RunTables(user_prefix, entity_or_service, timestamp_suffix)[f]
  /\ other[1].tx.del[f] # EmptyBag

\* As Cleared, with no row deleted.
ClearedKeep(v, f) == v

\* DELETE FROM <table f> in a transaction that sees v: every row of the
\* table that it sees is deleted
Cleared(v, f) == [v EXCEPT !.del[f] = v[f], ![f] = EmptyBag]

\* tx.execute("DELETE FROM ...").await, one of the three: the statement
\* deletes every row it sees, or starts to wait for a row lock with its
\* snapshot taken
DeleteStatement ==
  /\ \E k \in 1..3 :
       /\ pc = DeletePc[k]
       /\ tx.wait = None
       /\ LET f == TableKeys[k]
              v == StatementView(tx, CommittedNow)
          IN IF Locked(f)
               THEN /\ tx' = [tx EXCEPT !.wait = Some(v[f])]
                    /\ pc' = pc
               ELSE /\ tx' = Cleared(v, f)
                    /\ pc' = DeletePc[k + 1]
  /\ UNCHANGED <<context, client, dbInputs, outTables, result, all_edges, graph, node_map,
                 valid_edges_for_viz, original_rows, clusters, node_to_cluster_id,
                 edge_batch, nextUuid, runs>>

\* the cluster batch and its INSERT
InsertClusters ==
  /\ pc = "cleared"
  /\ tx' = [tx EXCEPT !.cluster = @ (+) ClusterBatch(clusters),
                      !.ins.cluster = @ (+) ClusterBatch(clusters)]
  /\ pc' = "clusters"
  /\ UNCHANGED <<context, client, dbInputs, outTables, result, all_edges, graph, node_map,
                 valid_edges_for_viz, original_rows, clusters, node_to_cluster_id,
                 edge_batch, nextUuid, runs>>

\* the group batch and its INSERT; each member set is iterated in any order
InsertGroups ==
  /\ pc = "clusters"
  /\ \E ord \in MemberOrders(clusters) :
       tx' = [tx EXCEPT !.group = @ (+) GroupBatch(clusters, ord),
                        !.ins.group = @ (+) GroupBatch(clusters, ord)]
  /\ pc' = "groups"
  /\ UNCHANGED <<context, client, dbInputs, outTables, result, all_edges, graph, node_map,
                 valid_edges_for_viz, original_rows, clusters, node_to_cluster_id,
                 edge_batch, nextUuid, runs>>

\* the edge batch and its INSERT; an unresolved edge returns the error and
\* the dropped transaction rolls back
InsertEdgeViz ==
  /\ pc = "groups"
  /\ LET b == EdgeBatchFrom(valid_edges_for_viz, node_to_cluster_id, <<>>)
     IN IF b.ok
          THEN /\ edge_batch' = b.rows
               /\ tx' = [tx EXCEPT !.edge = @ (+) SeqToBag(b.rows),
                                   !.ins.edge = @ (+) SeqToBag(b.rows)]
               /\ pc' = "edges"
               /\ result' = result
               /\ client' = client
          ELSE /\ edge_batch' = b.rows
               /\ tx' = NoTx
               /\ pc' = "failed"
               /\ result' = "IntegrityError"
               /\ client' = "none"
  /\ valid_edges_for_viz' = <<>>
  /\ UNCHANGED <<context, dbInputs, outTables, all_edges, graph, node_map, original_rows,
                 clusters, node_to_cluster_id, nextUuid, runs>>

\* The committed rows once t commits: t's deletions and insertions are
\* applied to the rows committed by then.
Published(committed, t) ==
  [cluster |-> (committed.cluster (-) t.del.cluster) (+) t.ins.cluster,
   group |-> (committed.group (-) t.del.group) (+) t.ins.group,
   edge |-> (committed.edge (-) t.del.edge) (+) t.ins.edge]

\* tx.commit() and the return of Ok(()), which drops client
Commit ==
  /\ pc = "edges"
  /\ LET now == Published(CommittedNow, tx)
     IN /\ clusterTbl' = now.cluster
        /\ groupTbl' = now.group
        /\ edgeVizTbl' = now.edge
        /\ db' = (export_edge_table(user_prefix, entity_or_service, timestamp_suffix)
                    :> now.edge)
                 @@ (export_group_table(user_prefix, entity_or_service, timestamp_suffix)
                    :> now.group)
                 @@ (export_cluster_table(user_prefix, entity_or_service, timestamp_suffix)
                    :> now.cluster)
                 @@ db
  /\ tx' = NoTx
  /\ pc' = "done"
  /\ result' = "Ok"
  /\ client' = "none"
  /\ UNCHANGED <<context, dbInputs, all_edges, graph, node_map, valid_edges_for_viz,
                 original_rows, clusters, node_to_cluster_id, edge_batch,
                 nextUuid, runs>>

Next ==
  \/ GetClient
  \/ FetchEdges
  \/ BuildGraph
  \/ FetchUniverse
  \/ DeriveClusters
  \/ BeginTx
  \/ DeleteStatement
  \/ InsertClusters
  \/ InsertGroups
  \/ InsertEdgeViz
  \/ Commit

Spec == Init /\ [][Next]_vars

----------------------------------------------------------------------------
(* A second call on the same tables *)

\* run_reclustering is called again with the same arguments once the
\* previous call has returned; its locals start afresh.
Rerun ==
  /\ pc \in {"done", "failed"}
  /\ runs < MaxRuns
  /\ runs' = runs + 1
  /\ pc' = "start"
  /\ result' = "none"
  /\ all_edges' = <<>>
  /\ graph' = EmptyGraph
  /\ node_map' = <<>>
  /\ valid_edges_for_viz' = <<>>
  /\ original_rows' = <<>>
  /\ clusters' = <<>>
  /\ node_to_cluster_id' = <<>>
  /\ tx' = NoTx
  /\ edge_batch' = <<>>
  /\ client' = "none"
  /\ dfs' = NoDfs
  /\ start_db' = TablesRead
  /\ UNCHANGED <<user_prefix, entity_or_service, timestamp_suffix, other, seen,
                 prov, dbInputs, outTables, nextUuid>>

NextRerun == Next \/ Rerun

\* The structure edges between different records.
RerunEdges == {e \in StructureEdges : e.id_1 # e.id_2}

InitRerun ==
  InitWith({SeqToBag(s) : s \in SeqsUpTo(RerunEdges, MaxEdges)},
           {PublicRecords}, {<<>>, <<"ds1">>})

SpecRerun == InitRerun /\ [][NextRerun]_vars

----------------------------------------------------------------------------
(* Failing steps: every fallible call of run_reclustering ends in `?`, so  *)
(* its error is returned at once; the locals are dropped, the connection   *)
(* goes back to the pool and an open transaction is rolled back.           *)

\* As OnError, with the call starting over.
OnErrorRestart(at) == "start"

\* `?`: where the call is after a step at position `at` returned Err
OnError(at) == "failed"

\* As AfterRollback, with the rows written so far left in the tables.
AfterRollbackKeep(t, committed) ==
  IF t.open THEN [cluster |-> t.cluster, group |-> t.group, edge |-> t.edge]
  ELSE committed

\* What the three tables hold once a Transaction is dropped uncommitted
AfterRollback(t, committed) == committed

Failing(at, err) ==
  /\ pc = at
  /\ pc' = OnError(at)
  /\ result' = err
  /\ LET tables == AfterRollback(tx, [cluster |-> clusterTbl, group |-> groupTbl,
                                      edge |-> edgeVizTbl])
     IN /\ clusterTbl' = tables.cluster
        /\ groupTbl' = tables.group
        /\ edgeVizTbl' = tables.edge
  /\ tx' = NoTx
  /\ client' = "none"
  /\ UNCHANGED <<context, dbInputs, db, all_edges, graph, node_map,
                 valid_edges_for_viz, original_rows, clusters, node_to_cluster_id,
                 edge_batch, nextUuid, runs>>

\* pool.get() fails
FailGetClient == Failing("start", "Failed to get DB client for reclustering")

\* the edge query fails
FailEdgeQuery == Failing("connected", "Failed to fetch edge data for reclustering")

\* As FailUniverseQuery, with the universe read inside the write transaction.
FailUniverseQueryInTx == Failing("tx", "Failed to fetch all public IDs")

\* the universe query fails
FailUniverseQuery == Failing("built", "Failed to fetch all public IDs")

\* client.transaction() fails
FailBeginTx == Failing("derived", "Failed to start transaction")

\* one of the three DELETE statements fails
FailDelete == \E k \in 1..3 : Failing(DeletePc[k], "DELETE failed")

\* the cluster INSERT fails; it is executed only for a non-empty batch
FailInsertClusters ==
  /\ DOMAIN clusters # {}
  /\ Failing("cleared", "Failed to batch insert cluster records")

\* the group INSERT fails; it is executed only for a non-empty batch
FailInsertGroups ==
  /\ DOMAIN clusters # {}
  /\ Failing("clusters", "Failed to batch insert group records")

\* the edge INSERT fails; it is executed only for a non-empty batch
FailInsertEdgeViz ==
  /\ LET b == EdgeBatchFrom(valid_edges_for_viz, node_to_cluster_id, <<>>)
     IN b.ok /\ b.rows # <<>>
  /\ Failing("groups", "Failed to batch insert edge visualization records")

\* tx.commit() fails
FailCommit == Failing("edges", "Failed to commit re-clustering transaction")

NextFail ==
  \/ NextRerun
  \/ FailGetClient
  \/ FailEdgeQuery
  \/ FailUniverseQuery
  \/ FailBeginTx
  \/ FailDelete
  \/ FailInsertClusters
  \/ FailInsertGroups
  \/ FailInsertEdgeViz
  \/ FailCommit

InitFail ==
  InitWith({SeqToBag(s) : s \in SeqsUpTo(RerunEdges, MaxEdges)},
           {PublicRecords}, {<<"ds1">>})

SpecFail == InitFail /\ [][NextFail]_vars

----------------------------------------------------------------------------
(* An export reader beside the call *)

\* As ReadCommitted, with the uncommitted rows of the open transaction seen.
ReadUncommitted(schema, t, names) ==
  IF t.open
    THEN (names.edge :> t.edge) @@ (names.group :> t.group)
           @@ (names.cluster :> t.cluster) @@ schema
    ELSE schema

\* What a statement of another session sees of the export schema while the
\* call's transaction t writes the tables `names`: the committed rows.
ReadCommitted(schema, t, names) == schema

OpinionNames == {<<"x">>}

\* fetch_organization_export_data (t = "entity") or fetch_service_export_data
\* (t = "service"): one query over the three tables it names.  `rows` is
\* what that statement saw of the three tables, None when one of them does
\* not exist (the query fails); `during` is the position of the call when
\* the query ran.
FetchExportData ==
  /\ \E p \in UserPrefixes, o \in OpinionNames, t \in RecordTypes :
       LET n == FetchTables(p, o, t, timestamp_suffix)
           schema == ReadCommitted(db, tx,
                       RunTables(user_prefix, entity_or_service, timestamp_suffix))
       IN seen' = Some([user_prefix |-> p, opinion_name |-> o, record_type |-> t,
                        tables |-> n, during |-> pc,
                        rows |-> IF {n.cluster, n.group, n.edge} \subseteq DOMAIN schema
                                   THEN Some([cluster |-> schema[n.cluster],
                                              group |-> schema[n.group],
                                              edge |-> schema[n.edge]])
                                   ELSE None])
  /\ UNCHANGED <<user_prefix, entity_or_service, timestamp_suffix, other,
                 dfs, start_db, prov, dbInputs, outTables, pc, result, all_edges, graph, node_map,
                 valid_edges_for_viz, original_rows, clusters, node_to_cluster_id,
                 tx, edge_batch, nextUuid, runs, client>>

NextReader == NextFail \/ FetchExportData

\* Two edge tables: a match and a severed edge; a single pending edge.
ReaderEdgeTables ==
  {SeqToBag(<<EdgeRow(Some("A"), Some("B"), Some(CONFIRMED_MATCH), None),
              EdgeRow(Some("C"), Some("A"), Some(CONFIRMED_NON_MATCH), None)>>),
   SeqToBag(<<EdgeRow(Some("B"), Some("C"), Some(PENDING_REVIEW), None)>>)}

\* The analyst prefix "u_x" is what the readers form from the prefix "u"
\* and the opinion name "x".
InitReader ==
  InitCall({<<"u", "x">>}, {"entity"}, ReaderEdgeTables, {PublicRecords}, {<<>>})

SpecReader == InitReader /\ [][NextReader]_vars

----------------------------------------------------------------------------
(* Two calls in progress at once.  The variables of the call hold the call *)
(* whose step comes next; `other` holds the arguments, the input tables    *)
(* and the locals of the call that waits at an await.  The export schema   *)
(* db is shared; each call reaches its tables through their names.         *)

\* The arguments, inputs and locals of the call in the variables.
ThisCall ==
  [user_prefix |-> user_prefix, entity_or_service |-> entity_or_service,
   timestamp_suffix |-> timestamp_suffix,
   edgeTable |-> edgeTable, publicTable |-> publicTable,
   pc |-> pc, result |-> result, all_edges |-> all_edges, graph |-> graph,
   node_map |-> node_map, valid_edges_for_viz |-> valid_edges_for_viz,
   original_rows |-> original_rows, clusters |-> clusters,
   node_to_cluster_id |-> node_to_cluster_id, tx |-> tx,
   edge_batch |-> edge_batch, client |-> client, dfs |-> dfs,
   start_db |-> start_db]

\* The executor resumes the other call.
Switch ==
  /\ other # None
  /\ other' = Some(ThisCall)
  /\ LET c == other[1]
     IN /\ user_prefix' = c.user_prefix
        /\ entity_or_service' = c.entity_or_service
        /\ timestamp_suffix' = c.timestamp_suffix
        /\ edgeTable' = c.edgeTable
        /\ publicTable' = c.publicTable
        /\ pc' = c.pc
        /\ result' = c.result
        /\ all_edges' = c.all_edges
        /\ graph' = c.graph
        /\ node_map' = c.node_map
        /\ valid_edges_for_viz' = c.valid_edges_for_viz
        /\ original_rows' = c.original_rows
        /\ clusters' = c.clusters
        /\ node_to_cluster_id' = c.node_to_cluster_id
        /\ tx' = c.tx
        /\ edge_batch' = c.edge_batch
        /\ client' = c.client
        /\ dfs' = c.dfs
        /\ start_db' = c.start_db
        /\ clusterTbl' =
             db[export_cluster_table(c.user_prefix, c.entity_or_service, c.timestamp_suffix)]
        /\ groupTbl' =
             db[export_group_table(c.user_prefix, c.entity_or_service, c.timestamp_suffix)]
        /\ edgeVizTbl' =
             db[export_edge_table(c.user_prefix, c.entity_or_service, c.timestamp_suffix)]
  /\ UNCHANGED <<db, whitelist, nextUuid, runs, seen, prov>>

NextPairs == Next \/ Switch

\* The edge tables of the two calls.
PairEdgeTables ==
  {SeqToBag(<<EdgeRow(Some("A"), Some("B"), Some(CONFIRMED_MATCH), None)>>),
   SeqToBag(<<EdgeRow(Some("B"), Some("C"), Some(PENDING_REVIEW), None),
              EdgeRow(Some("A"), Some("B"), Some(CONFIRMED_NON_MATCH), None)>>)}

\* Two calls for different (user_prefix, entity_or_service) pairs, both
\* about to start, after create_timestamped_tables has run for each analyst.
InitPairs ==
  /\ user_prefix \in UserPrefixes
  /\ entity_or_service \in RecordTypes
  /\ timestamp_suffix \in Timestamps
  /\ edgeTable \in PairEdgeTables
  /\ publicTable = PublicRecords
  /\ whitelist = <<>>
  /\ nextUuid = 0
  /\ runs = 1
  /\ seen = None
  /\ RunLocalInit
  /\ \E p \in UserPrefixes, t \in RecordTypes, et \in PairEdgeTables :
       /\ <<p, t>> # <<user_prefix, entity_or_service>>
       /\ et # edgeTable
       /\ other = Some([ThisCall EXCEPT !.user_prefix = p, !.entity_or_service = t,
                                        !.edgeTable = et,
                                        !.start_db.edgeTable = et])
       /\ db = create_timestamped_tables(p, timestamp_suffix, TeamSchema,
                 create_timestamped_tables(user_prefix, timestamp_suffix, TeamSchema,
                                           <<>>))
  /\ clusterTbl = db[export_cluster_table(user_prefix, entity_or_service, timestamp_suffix)]
  /\ groupTbl = db[export_group_table(user_prefix, entity_or_service, timestamp_suffix)]
  /\ edgeVizTbl = db[export_edge_table(user_prefix, entity_or_service, timestamp_suffix)]

SpecPairs == InitPairs /\ [][NextPairs]_vars

----------------------------------------------------------------------------
(* main from the provisioning on (main.rs 54-66), one awaited statement at *)
(* a time: pool.get(), create_timestamped_tables, run_reclustering for     *)
(* "entity", then run_reclustering for "service"; the `?` after each ends  *)
(* main at its first error.  The statements of create_timestamped_tables   *)
(* run outside any transaction: each is committed when it returns, so the  *)
(* export schema shows a table absent, then empty, then filled.  `other`   *)
(* holds the arguments and the input tables of the service call until     *)
(* main makes it.                                                          *)

\* The rows of table `name` of the export schema, none when it is absent.
RowsOf(schema, name) == IF name \in DOMAIN schema THEN schema[name] ELSE EmptyBag

\* target_table_name of the table the loop is at
TargetNow == target_table_name(user_prefix, tables_to_copy[prov.i], timestamp_suffix)

\* The pieces of a name written out with "_" between them.
RECURSIVE Joined(_)
Joined(pieces) ==
  IF pieces = <<>> THEN ""
  ELSE IF Len(pieces) = 1 THEN pieces[1]
  ELSE pieces[1] \o "_" \o Joined(Tail(pieces))

\* s.contains(w): w is a run of consecutive characters of s
Contains(s, w) ==
  \E k \in 1..(Len(s) - Len(w) + 1) : SubSeq(s, k, k + Len(w) - 1) = w

\* table_name.contains("_group") && !table_name.contains("_group_cluster")
IsGroupTable(table_name) ==
  /\ Contains(Joined(table_name), "_group")
  /\ ~Contains(Joined(table_name), "_group_cluster")

\* The names of the check constraints of the team table <p>_<table_name>:
\* the group tables carry <table_name>_<suffix> for each suffix in prov.team.
TeamConstraints(table_name) ==
  IF IsGroupTable(table_name)
    THEN {Joined(table_name \o <<suffix>>) : suffix \in prov.team}
  ELSE {}

\* The rows of pg_constraint for the analyst's team tables and for the
\* export tables.
PgConstraint ==
  {[conname |-> n, conrelid |-> <<"team">> \o source_table(user_prefix, t),
    contype |-> "c"] :
     <<t, n>> \in {x \in Range(tables_to_copy) \X
                         UNION {TeamConstraints(y) : y \in Range(tables_to_copy)} :
                     x[2] \in TeamConstraints(x[1])}}
  \cup UNION {{[conname |-> n, conrelid |-> t, contype |-> "c"] : n \in prov.checks[t]} :
                t \in DOMAIN prov.checks}

\* conname LIKE '%w%': the pattern has no wildcard but the two %, so it is
\* the test that w occurs in the name
NameHas(name, w) == Contains(name, w)

\* WHERE conrelid = '<target>'::regclass AND contype = 'c'
\*   AND conname LIKE '%order%' OR conname LIKE '%different%'
\*   OR conname LIKE '%check%'
\* AND binds tighter than OR.
ConstraintQueryPasses(row, target) ==
  \/ /\ row.conrelid = target
     /\ row.contype = "c"
     /\ NameHas(row.conname, "order")
  \/ NameHas(row.conname, "different")
  \/ NameHas(row.conname, "check")

\* SELECT conname FROM pg_constraint WHERE ...: one name per row that passes
ConstraintQuery(target) ==
  LET pass == {r \in PgConstraint : ConstraintQueryPasses(r, target)}
  IN [n \in {r.conname : r \in pass} |-> Cardinality({r \in pass : r.conname = n})]

\* A statement of main or of the loop has left the export schema as
\* `schema`; what comes next is `next`.
ProvisionStep(schema, next) ==
  /\ pc = "provision"
  /\ db' = schema
  /\ clusterTbl' = RowsOf(schema, export_cluster_table(user_prefix, entity_or_service,
                                                       timestamp_suffix))
  /\ groupTbl' = RowsOf(schema, export_group_table(user_prefix, entity_or_service,
                                                   timestamp_suffix))
  /\ edgeVizTbl' = RowsOf(schema, export_edge_table(user_prefix, entity_or_service,
                                                    timestamp_suffix))
  /\ prov' = next
  /\ pc' = IF next.at = "returned" THEN "start" ELSE "provision"
  /\ UNCHANGED <<user_prefix, entity_or_service, timestamp_suffix, other, seen, dfs,
                 start_db, dbInputs, result, all_edges, graph, node_map,
                 valid_edges_for_viz, original_rows, clusters, node_to_cluster_id,
                 tx, edge_batch, nextUuid, runs, client>>

\* let client_for_tables = pool.get().await?
GetTableClient ==
  /\ prov.at = "connect"
  /\ ProvisionStep(db, [prov EXCEPT !.at = "drop", !.client = "held"])

\* DROP TABLE IF EXISTS <target> CASCADE
DropTable ==
  /\ prov.at = "drop"
  /\ ProvisionStep([n \in DOMAIN db \ {TargetNow} |-> db[n]],
                   [prov EXCEPT !.at = "create",
                                !.checks = [t \in DOMAIN @ \ {TargetNow} |-> @[t]]])

\* CREATE TABLE <target> (LIKE <source> INCLUDING ALL): the check
\* constraints of the source come along under their names
CreateTable ==
  /\ prov.at = "create"
  /\ ProvisionStep((TargetNow :> EmptyBag) @@ db,
                   [prov EXCEPT !.at = IF IsGroupTable(tables_to_copy[prov.i])
                                         THEN "constraints" ELSE "copy",
                                !.checks = (TargetNow
                                              :> TeamConstraints(tables_to_copy[prov.i]))
                                           @@ @])

\* the query of pg_constraint; its rows come in any order, and when it
\* fails the loop over constraint_rows runs over no row
FindConstraints ==
  /\ prov.at = "constraints"
  /\ \E rows \in OrdersOfBag(ConstraintQuery(TargetNow)) \cup {<<>>} :
       ProvisionStep(db, [prov EXCEPT !.found = rows,
                                      !.at = IF rows = <<>> THEN "copy" ELSE "alter"])

\* ALTER TABLE <target> DROP CONSTRAINT IF EXISTS <conname>, for the next
\* of constraint_rows; its error is logged and not returned
DropConstraint ==
  /\ prov.at = "alter"
  /\ \E ok \in BOOLEAN :
       ProvisionStep(db, [prov EXCEPT
                            !.found = Tail(@),
                            !.checks[TargetNow] = IF ok THEN @ \ {Head(prov.found)} ELSE @,
                            !.at = IF Tail(prov.found) = <<>> THEN "copy" ELSE "alter"])

\* INSERT INTO <target> SELECT * FROM <source>
CopyData ==
  /\ prov.at = "copy"
  /\ ProvisionStep((TargetNow :> (db[TargetNow]
                                   (+) TeamRows(source_table(user_prefix,
                                                             tables_to_copy[prov.i]),
                                                TeamSchema)))
                     @@ db,
                   [prov EXCEPT !.at = "count"])

\* SELECT COUNT(*) FROM <target>, then the next table, or Ok(()) and
\* drop(client_for_tables)
CountCopied ==
  /\ prov.at = "count"
  /\ ProvisionStep(db, IF prov.i < Len(tables_to_copy)
                         THEN [prov EXCEPT !.i = @ + 1, !.at = "drop"]
                         ELSE [prov EXCEPT !.i = 0, !.at = "returned",
                                           !.client = "none"])

\* The error a failing statement returns.
ProvisionError(at) ==
  CASE at = "connect" -> "PoolError"
    [] at = "drop" -> "Failed to drop table"
    [] at = "create" -> "Failed to create table structure"
    [] at = "copy" -> "Failed to copy data"
    [] at = "count" -> "Failed to count rows"

\* pool.get() or a statement of the loop fails: main returns the error and
\* run_reclustering is not called
FailProvision ==
  /\ pc = "provision"
  /\ prov.at \in {"connect", "drop", "create", "copy", "count"}
  /\ pc' = "aborted"
  /\ result' = ProvisionError(prov.at)
  /\ prov' = [prov EXCEPT !.client = "none"]
  /\ UNCHANGED <<user_prefix, entity_or_service, timestamp_suffix, other, seen, dfs,
                 start_db, dbInputs, outTables, all_edges, graph, node_map,
                 valid_edges_for_viz, original_rows, clusters, node_to_cluster_id,
                 tx, edge_batch, nextUuid, runs, client>>

\* run_reclustering(&pool, user_prefix, .., "service", ..), called once the
\* call for "entity" has returned Ok
CallForService ==
  /\ pc = "done"
  /\ prov.at = "returned"
  /\ entity_or_service = "entity"
  /\ other # None
  /\ other' = None
  /\ runs' = runs + 1
  /\ LET c == other[1]
     IN /\ user_prefix' = c.user_prefix
        /\ entity_or_service' = c.entity_or_service
        /\ timestamp_suffix' = c.timestamp_suffix
        /\ edgeTable' = c.edgeTable
        /\ publicTable' = c.publicTable
        /\ pc' = c.pc
        /\ result' = c.result
        /\ all_edges' = c.all_edges
        /\ graph' = c.graph
        /\ node_map' = c.node_map
        /\ valid_edges_for_viz' = c.valid_edges_for_viz
        /\ original_rows' = c.original_rows
        /\ clusters' = c.clusters
        /\ node_to_cluster_id' = c.node_to_cluster_id
        /\ tx' = c.tx
        /\ edge_batch' = c.edge_batch
        /\ client' = c.client
        /\ dfs' = c.dfs
        /\ start_db' = c.start_db
        /\ clusterTbl' =
             db[export_cluster_table(c.user_prefix, c.entity_or_service, c.timestamp_suffix)]
        /\ groupTbl' =
             db[export_group_table(c.user_prefix, c.entity_or_service, c.timestamp_suffix)]
        /\ edgeVizTbl' =
             db[export_edge_table(c.user_prefix, c.entity_or_service, c.timestamp_suffix)]
  /\ UNCHANGED <<db, whitelist, nextUuid, seen, prov>>

NextProvision ==
  \/ GetTableClient
  \/ DropTable
  \/ CreateTable
  \/ FindConstraints
  \/ DropConstraint
  \/ CopyData
  \/ CountCopied
  \/ FailProvision
  \/ Next
  \/ CallForService
  \/ FailGetClient
  \/ FailEdgeQuery
  \/ FailUniverseQuery
  \/ FailBeginTx
  \/ FailDelete
  \/ FailInsertClusters
  \/ FailInsertGroups
  \/ FailInsertEdgeViz
  \/ FailCommit

\* An export table of the same timestamp left by an earlier export.
StaleSchema ==
  (export_edge_table(<<"u">>, "entity", <<"20260101120000">>)
     :> SetToBag({EdgeRow(Some("C"), Some("C"), Some(PENDING_REVIEW), None)}))

\* The suffixes of the check constraints of the team group tables: none;
\* two that the query finds for every table; one it finds for the target
\* only (order inside a longer word) and one it does not find; two it
\* finds for every table by a word inside a longer one.
TeamCheckSets ==
  {{},
   {"check_order", "different"},
   {"reorder", "positive"},
   {"indifferent", "checked"}}

ProvisionEdgeTables ==
  {EmptyBag,
   SeqToBag(<<EdgeRow(Some("A"), Some("B"), Some(CONFIRMED_MATCH), None)>>),
   SeqToBag(<<EdgeRow(Some("A"), Some("B"), Some(CONFIRMED_MATCH), None),
              EdgeRow(Some("B"), Some("C"), Some(CONFIRMED_NON_MATCH), None)>>)}

ServiceEdgeTables ==
  {EmptyBag,
   SeqToBag(<<EdgeRow(Some("B"), Some("C"), Some(PENDING_REVIEW), None)>>)}

\* main is about to take client_for_tables from the pool.
InitProvision ==
  /\ user_prefix = <<"u">>
  /\ entity_or_service = "entity"
  /\ timestamp_suffix \in Timestamps
  /\ edgeTable \in ProvisionEdgeTables
  /\ publicTable = PublicRecords
  /\ whitelist = <<"ds1">>
  /\ seen = None
  /\ nextUuid = 0
  /\ runs = 1
  /\ db \in {<<>>, StaleSchema}
  /\ clusterTbl = RowsOf(db, export_cluster_table(user_prefix, entity_or_service,
                                                  timestamp_suffix))
  /\ groupTbl = RowsOf(db, export_group_table(user_prefix, entity_or_service,
                                              timestamp_suffix))
  /\ edgeVizTbl = RowsOf(db, export_edge_table(user_prefix, entity_or_service,
                                               timestamp_suffix))
  /\ pc = "provision"
  /\ \E cs \in TeamCheckSets :
       prov = [i |-> 1, at |-> "connect", found |-> <<>>, checks |-> <<>>,
               team |-> cs, client |-> "none"]
  /\ RunLocals
  /\ \E et \in ServiceEdgeTables :
       other = Some([ThisCall EXCEPT !.entity_or_service = "service",
                                     !.edgeTable = et,
                                     !.start_db.edgeTable = et,
                                     !.pc = "start"])

SpecProvision == InitProvision /\ [][NextProvision]_vars

\* Once create_timestamped_tables has returned Ok, the export schema is
\* the one the other specifications start from.
ProvisionedAsCopied ==
  (pc = "start" /\ runs = 1) =>
    db = create_timestamped_tables(user_prefix, timestamp_suffix, TeamSchema, <<>>)

----------------------------------------------------------------------------
(* Two calls for the same (user_prefix, entity_or_service,                 *)
(* timestamp_suffix): both write the same three tables.  A DELETE sees    *)
(* the rows committed when it starts;                                      *)
(* where another open transaction has deleted one of them it               *)
(* waits for that transaction to end, then deletes the rows of its own     *)
(* snapshot that are still there: rows the other transaction inserted are  *)
(* not in that snapshot.                                                   *)

\* the lock is released: the waiting DELETE deletes the rows of its
\* snapshot that are still committed
ResumeDelete ==
  /\ \E k \in 1..3 :
       /\ pc = DeletePc[k]
       /\ tx.wait # None
       /\ ~Locked(TableKeys[k])
       /\ LET f == TableKeys[k]
              v == StatementView(tx, CommittedNow)
              gone == BagMin(tx.wait[1], CommittedNow[f])
          IN /\ tx' = [v EXCEPT !.del[f] = gone,
                                ![f] = CommittedNow[f] (-) gone,
                                !.wait = None]
             /\ pc' = DeletePc[k + 1]
  /\ UNCHANGED <<context, client, dbInputs, outTables, result, all_edges, graph, node_map,
                 valid_edges_for_viz, original_rows, clusters, node_to_cluster_id,
                 edge_batch, nextUuid, runs>>

NextSame ==
  \/ GetClient
  \/ FetchEdges
  \/ BuildGraph
  \/ FetchUniverse
  \/ DeriveClusters
  \/ BeginTx
  \/ DeleteStatement
  \/ ResumeDelete
  \/ InsertClusters
  \/ InsertGroups
  \/ InsertEdgeViz
  \/ Commit
  \/ Switch

SameEdgeTables ==
  {SeqToBag(<<EdgeRow(Some("A"), Some("B"), Some(CONFIRMED_MATCH), None)>>),
   SeqToBag(<<EdgeRow(Some("B"), Some("C"), Some(PENDING_REVIEW), None),
              EdgeRow(Some("A"), Some("B"), Some(CONFIRMED_NON_MATCH), None)>>)}

\* Two calls with the same arguments, both about to start, after
\* create_timestamped_tables has run for the analyst.
InitSame ==
  /\ user_prefix = <<"u">>
  /\ entity_or_service = "entity"
  /\ timestamp_suffix \in Timestamps
  /\ edgeTable \in SameEdgeTables
  /\ publicTable = PublicRecords
  /\ whitelist = <<>>
  /\ nextUuid = 0
  /\ runs = 1
  /\ seen = None
  /\ RunLocalInit
  /\ other = Some(ThisCall)
  /\ db = create_timestamped_tables(user_prefix, timestamp_suffix, TeamSchema, <<>>)
  /\ clusterTbl = db[export_cluster_table(user_prefix, entity_or_service, timestamp_suffix)]
  /\ groupTbl = db[export_group_table(user_prefix, entity_or_service, timestamp_suffix)]
  /\ edgeVizTbl = db[export_edge_table(user_prefix, entity_or_service, timestamp_suffix)]

SpecSame == InitSame /\ [][NextSame]_vars

----------------------------------------------------------------------------
(* Whitelists of several datasets *)

Datasets == {"ds1", "ds2", "ds3"}

\* Whitelists of up to MaxWhitelist entries, repeated entries included.
LongWhitelists == SeqsUpTo(Datasets, MaxWhitelist)

FilterEdgeTables ==
  {EmptyBag,
   SeqToBag(<<EdgeRow(Some("A"), Some("C"), Some(CONFIRMED_MATCH), None)>>)}

InitFilter == InitWith(FilterEdgeTables, {PublicRecords}, LongWhitelists)

SpecFilter == InitFilter /\ [][Next]_vars

----------------------------------------------------------------------------
(* Edge tables with details payloads *)

\* Payloads of the details column: only a weight, all four fields, no
\* weight, a weight that is not a number.
DetailPayloads ==
  {[calculated_edge_weight |-> [num |-> 250]],
   [contributing_methods |-> [arr |-> <<"name">>],
    total_confidence |-> [num |-> 90],
    pre_rl_total_confidence |-> [num |-> 80],
    calculated_edge_weight |-> [num |-> 70]],
   [total_confidence |-> [num |-> 40]],
   [calculated_edge_weight |-> [str |-> "high"]]}

DetailEdges ==
  {EdgeRow(Some("A"), Some("B"), Some(CONFIRMED_MATCH), d) :
     d \in {None} \cup {Some(x) : x \in DetailPayloads}}
  \cup {EdgeRow(Some("B"), Some("C"), None, d) :
          d \in {None} \cup {Some(x) : x \in DetailPayloads}}
  \cup {EdgeRow(Some("A"), Some("C"), Some(CONFIRMED_NON_MATCH),
                Some([calculated_edge_weight |-> [num |-> 250]]))}

InitDetails ==
  InitWith({SeqToBag(s) : s \in SeqsUpTo(DetailEdges, MaxEdges)},
           {PublicRecords}, {<<>>})

SpecDetails == InitDetails /\ [][Next]_vars

----------------------------------------------------------------------------
(* Step 4 one loop iteration at a time: the loop over the node indices,    *)
(* the while loop over the stack, then the singleton loop.                 *)

DfsRest == <<user_prefix, entity_or_service, timestamp_suffix, other, seen,
             start_db, prov, client, dbInputs, outTables, result, all_edges, graph,
             node_map, valid_edges_for_viz, tx, edge_batch, runs>>

\* let mut visited / clusters / node_to_cluster_id
DfsBegin ==
  /\ pc = "universe"
  /\ dfs.phase = "idle"
  /\ dfs' = [NoDfs EXCEPT !.phase = "outer", !.i = 1, !.d.uuid = nextUuid]
  /\ UNCHANGED <<DfsRest, pc, original_rows, clusters, node_to_cluster_id, nextUuid>>

\* for node_idx in graph.node_indices(): the node is in visited
DfsSkip ==
  /\ pc = "universe"
  /\ dfs.phase = "outer"
  /\ dfs.i <= Len(graph.nodes)
  /\ graph.nodes[dfs.i] \in dfs.d.visited
  /\ dfs' = [dfs EXCEPT !.i = @ + 1]
  /\ UNCHANGED <<DfsRest, pc, original_rows, clusters, node_to_cluster_id, nextUuid>>

\* the node is not in visited: a new cluster_id, stack = vec![node_idx]
DfsStart ==
  /\ pc = "universe"
  /\ dfs.phase = "outer"
  /\ dfs.i <= Len(graph.nodes)
  /\ graph.nodes[dfs.i] \notin dfs.d.visited
  /\ dfs' = [dfs EXCEPT !.phase = "inner",
                        !.cid = dfs.d.uuid + 1,
                        !.d.uuid = @ + 1,
                        !.d.current = {},
                        !.stack = <<dfs.i>>]
  /\ UNCHANGED <<DfsRest, pc, original_rows, clusters, node_to_cluster_id, nextUuid>>

\* one iteration of while let Some(current_node_idx) = stack.pop()
DfsPop ==
  /\ pc = "universe"
  /\ dfs.phase = "inner"
  /\ dfs.stack # <<>>
  /\ LET cur == dfs.stack[Len(dfs.stack)]
         rest == SubSeq(dfs.stack, 1, Len(dfs.stack) - 1)
         id == graph.nodes[cur]
     IN IF id \in dfs.d.visited
          THEN dfs' = [dfs EXCEPT !.stack = rest]
          ELSE LET d2 == VisitNode(dfs.d, id, dfs.cid)
               IN dfs' = [dfs EXCEPT
                            !.d = d2,
                            !.inserted = Append(@, id),
                            !.stack = PushUnvisited(graph, rest, Neighbors(graph, cur),
                                                    d2.visited)]
  /\ UNCHANGED <<DfsRest, pc, original_rows, clusters, node_to_cluster_id, nextUuid>>

\* the stack is empty: clusters.insert(cluster_id, current_cluster_nodes)
DfsClose ==
  /\ pc = "universe"
  /\ dfs.phase = "inner"
  /\ dfs.stack = <<>>
  /\ dfs' = [dfs EXCEPT !.phase = "outer",
                        !.i = @ + 1,
                        !.d.clusters = (dfs.cid :> dfs.d.current) @@ @]
  /\ UNCHANGED <<DfsRest, pc, original_rows, clusters, node_to_cluster_id, nextUuid>>

\* the node loop is over: the singleton loop, and step 4 ends
DfsFinish ==
  /\ pc = "universe"
  /\ dfs.phase = "outer"
  /\ dfs.i > Len(graph.nodes)
  /\ LET d == CompleteSingletons(original_rows, node_map, dfs.d)
     IN /\ clusters' = d.clusters
        /\ node_to_cluster_id' = d.n2c
        /\ nextUuid' = d.uuid
  /\ original_rows' = <<>>
  /\ dfs' = [dfs EXCEPT !.phase = "done"]
  /\ pc' = "derived"
  /\ UNCHANGED DfsRest

\* The steps of step 4.
DfsSteps ==
  \/ DfsBegin
  \/ DfsSkip
  \/ DfsStart
  \/ DfsPop
  \/ DfsClose
  \/ DfsFinish

NextDfs ==
  \/ GetClient
  \/ FetchEdges
  \/ BuildGraph
  \/ FetchUniverse
  \/ DfsSteps

\* Matches that close a cycle A-B-C-A, a reversed parallel edge, two
\* self-loops; a bag may hold the same edge several times.
DfsEdges ==
  {EdgeRow(Some(x[1]), Some(x[2]), Some(CONFIRMED_MATCH), None) :
     x \in {<<"A", "B">>, <<"B", "A">>, <<"B", "C">>, <<"C", "A">>,
            <<"A", "A">>, <<"C", "C">>}}

InitDfs ==
  InitWith({SeqToBag(s) : s \in SeqsUpTo(DfsEdges, MaxDfsEdges)},
           {PublicRecords}, {<<"ds2">>})

\* Step 4 is synchronous code without an await: while one of its steps
\* can run, one runs.
SpecDfs == InitDfs /\ [][NextDfs]_vars /\ WF_vars(DfsSteps)

----------------------------------------------------------------------------
(* Other sessions commit to the tables the call reads, while it runs: the  *)
(* analyst's review writes the edge table, an import writes the public     *)
(* table.  Both queries of the call are single statements outside any      *)
(* transaction and see what is committed when they execute.                *)

\* The positions after the edge query has returned and before the call returns.
AfterEdgeRead ==
  {"fetched", "built", "universe", "derived", "tx", "del1", "del2", "cleared",
   "clusters", "groups", "edges"}

\* The positions of a call that has not returned.
WhileRunning == {"start", "connected"} \cup AfterEdgeRead

\* A decision the analyst records mid-run.
EditedEdgeRows ==
  {EdgeRow(Some("A"), Some("B"), Some(CONFIRMED_NON_MATCH), None),
   EdgeRow(Some("B"), Some("C"), Some(CONFIRMED_MATCH), None)}

\* A record imported mid-run.
ImportedRecords == {[id |-> "D", source_system |-> "ds1"]}

\* One edit of the edge table is committed: a row is added or removed.
EditEdges ==
  /\ pc \in WhileRunning
  /\ edgeTable = start_db.edgeTable
  /\ \/ \E e \in EditedEdgeRows : edgeTable' = edgeTable (+) SetToBag({e})
     \/ \E e \in BagToSet(edgeTable) : edgeTable' = edgeTable (-) SetToBag({e})
  /\ UNCHANGED <<context, publicTable, whitelist, outTables, pc, result, all_edges,
                 graph, node_map, valid_edges_for_viz, original_rows, clusters,
                 node_to_cluster_id, tx, edge_batch, nextUuid, runs, client>>

\* One change of the public table is committed: a record with a new id is
\* added, or a record is removed.
EditUniverse ==
  /\ pc \in WhileRunning
  /\ publicTable = start_db.publicTable
  /\ \/ \E r \in ImportedRecords :
          /\ r.id \notin {x.id : x \in BagToSet(publicTable)}
          /\ publicTable' = publicTable (+) SetToBag({r})
     \/ \E r \in BagToSet(publicTable) : publicTable' = publicTable (-) SetToBag({r})
  /\ UNCHANGED <<context, edgeTable, whitelist, outTables, pc, result, all_edges,
                 graph, node_map, valid_edges_for_viz, original_rows, clusters,
                 node_to_cluster_id, tx, edge_batch, nextUuid, runs, client>>

NextEdits == Next \/ EditEdges \/ EditUniverse

EditEdgeTables ==
  {EmptyBag,
   SeqToBag(<<EdgeRow(Some("A"), Some("B"), Some(CONFIRMED_MATCH), None)>>),
   SeqToBag(<<EdgeRow(Some("A"), Some("B"), Some(PENDING_REVIEW), None),
              EdgeRow(Some("B"), Some("C"), Some(CONFIRMED_NON_MATCH), None)>>)}

InitEdits == InitWith(EditEdgeTables, {PublicRecords}, {<<>>, <<"ds1">>})

SpecEdits == InitEdits /\ [][NextEdits]_vars

----------------------------------------------------------------------------
(* Edge tables with anomalous rows *)

InitRows ==
  InitWith({SeqToBag(s) : s \in SeqsUpTo(RowEdges, MaxEdges)},
           {PublicRecords}, Whitelists)

SpecRows == InitRows /\ [][Next]_vars

----------------------------------------------------------------------------
(* The example scenario: universe {A, B, C, D},                            *)
(* edges (A,B,CONFIRMED_MATCH), (B,C,PENDING_REVIEW),                      *)
(* (C,D,CONFIRMED_NON_MATCH) *)

ExampleEdges ==
  SeqToBag(<<EdgeRow(Some("A"), Some("B"), Some(CONFIRMED_MATCH), None),
             EdgeRow(Some("B"), Some("C"), Some(PENDING_REVIEW), None),
             EdgeRow(Some("C"), Some("D"), Some(CONFIRMED_NON_MATCH), None)>>)

ExamplePublic ==
  PublicRecords (+) SetToBag({[id |-> "D", source_system |-> "ds2"]})

InitExample == InitWith({ExampleEdges}, {ExamplePublic}, Whitelists)

SpecExample == InitExample /\ [][Next]_vars

----------------------------------------------------------------------------
(* Vocabulary of the properties.  Validity of an edge is restated here     *)
(* from the data model, independently of the builder's operators.          *)

\* The clusters of the call are final.
Derived ==
  pc \in {"derived", "tx", "del1", "del2", "cleared", "clusters", "groups", "edges",
          "done"}

\* The filtered Record universe.
Universe == BagToSet(UniverseQuery(publicTable, whitelist))

ClusterSets == {clusters[c] : c \in DOMAIN clusters}

Members == UNION ClusterSets

ClustersOf(id) == {c \in DOMAIN clusters : id \in clusters[c]}

End1(e) == UnwrapOrDefault(e.id_1)
End2(e) == UnwrapOrDefault(e.id_2)

\* The status of an edge, an absent one read as PENDING_REVIEW.
StatusOf(e) == UnwrapOr(e.confirmed_status, PENDING_REVIEW)

IsNonMatch(e) == e.confirmed_status = Some(CONFIRMED_NON_MATCH)

\* A valid edge: both endpoints non-empty, status PENDING_REVIEW or CONFIRMED_MATCH.
ValidEdge(e) ==
  /\ End1(e) # "" /\ End2(e) # ""
  /\ StatusOf(e) \in {PENDING_REVIEW, CONFIRMED_MATCH}

ValidEdgesOf(edges) == {edges[i] : i \in {j \in DOMAIN edges : ValidEdge(edges[j])}}

\* The ids joined to the ids of S by chains of edges of E.
RECURSIVE ReachFrom(_, _)
ReachFrom(S, E) ==
  LET T == S \cup {End2(e) : e \in {x \in E : End1(x) \in S}}
               \cup {End1(e) : e \in {x \in E : End2(x) \in S}}
  IN IF T = S THEN S ELSE ReachFrom(T, E)

\* x and y are joined by a chain of valid edges (the empty chain when x = y).
ValidChain(x, y) == y \in ReachFrom({x}, ValidEdgesOf(all_edges))

\* The partition a call derives from the given edges and universe.
PartitionOfRun(edges, universe) ==
  LET b == BuildGraphOf(edges)
      rows == CHOOSE r \in OrdersOfSet(universe) : TRUE
      d == DeriveClustersOf(b.graph, b.node_map, rows, 0)
  IN {d.clusters[c] : c \in DOMAIN d.clusters}

\* The group table as the call sees it: its transaction's view, the
\* committed rows once it has committed.
GroupRowsNow == IF pc = "done" THEN groupTbl ELSE tx.group

GroupsWritten == pc \in {"groups", "edges", "done"}

\* The cluster table as the running call sees it.
ClusterRowsNow == IF pc = "done" THEN clusterTbl ELSE tx.cluster

\* Number of rows of bag b that satisfy P
CountRows(b, P(_)) ==
  BagCardinality([r \in {x \in BagToSet(b) : P(x)} |-> b[r]])

\* The member sets a group table assigns to its cluster ids.
TablePartition(g) ==
  {UNION {{r.id_1, r.id_2} : r \in {x \in BagToSet(g) : x.group_cluster_id = c}} :
     c \in {r.group_cluster_id : r \in BagToSet(g)}}

----------------------------------------------------------------------------
(* C1  After a run the union of the clusters' member sets equals the       *)
(*     filtered universe exactly.  The code breaks it: an edge endpoint    *)
(*     outside the universe is clustered all the same.                     *)
C1_UnionIsUniverse == Derived => Members = Universe

(* C2  After a run the clusters are pairwise disjoint, and                 *)
(*     node_to_cluster_id maps every member to the one cluster that        *)
(*     contains it.                                                        *)
C2_Disjoint ==
  Derived =>
    /\ \A c1 \in DOMAIN clusters : \A c2 \in DOMAIN clusters :
         c1 # c2 => clusters[c1] \cap clusters[c2] = {}
    /\ DOMAIN node_to_cluster_id = Members
    /\ \A m \in Members : ClustersOf(m) = {node_to_cluster_id[m]}

\* A run with a component of several records beside a completed singleton.
C2_Witness ==
  /\ pc = "done"
  /\ \E c \in DOMAIN clusters : Cardinality(clusters[c]) >= 2
  /\ \E c \in DOMAIN clusters :
       Cardinality(clusters[c]) = 1 /\ clusters[c] \cap DOMAIN node_map = {}

(* C3  The partition derived from an edge set equals the partition         *)
(*     derived from that edge set with every CONFIRMED_NON_MATCH edge      *)
(*     removed beforehand.                                                 *)
C3_FilterIsRemoval ==
  Derived =>
    ClusterSets =
      PartitionOfRun(SelectSeq(all_edges, LAMBDA e : ~IsNonMatch(e)), Universe)

\* A run whose input holds a CONFIRMED_NON_MATCH edge between two
\* records of the universe next to a valid edge at one of them.
C3_Witness ==
  /\ pc = "done"
  /\ \E i \in DOMAIN all_edges : \E j \in DOMAIN all_edges :
       /\ IsNonMatch(all_edges[i])
       /\ End1(all_edges[i]) # End2(all_edges[i])
       /\ {End1(all_edges[i]), End2(all_edges[i])} \subseteq Universe
       /\ ValidEdge(all_edges[j])
       /\ End1(all_edges[j]) # End2(all_edges[j])
       /\ End1(all_edges[j]) = End2(all_edges[i])

(* C4  As claimed: the two endpoints of every CONFIRMED_NON_MATCH edge     *)
(*     are placed in different clusters (stated for an edge between two    *)
(*     different records, as the data model expects).                      *)
C4_NonMatchSeparated ==
  Derived =>
    \A i \in DOMAIN all_edges :
      (IsNonMatch(all_edges[i]) /\ End1(all_edges[i]) # End2(all_edges[i])) =>
        ~\E c \in DOMAIN clusters :
           {End1(all_edges[i]), End2(all_edges[i])} \subseteq clusters[c]

(* C4  As amended: a CONFIRMED_NON_MATCH edge joins nothing by itself;     *)
(*     its endpoints share a cluster only if they are one record or a      *)
(*     chain of valid edges joins them.                                    *)
C4_NonMatchJoinsNothing ==
  Derived =>
    \A i \in DOMAIN all_edges :
      IsNonMatch(all_edges[i]) =>
        ((\E c \in DOMAIN clusters :
            {End1(all_edges[i]), End2(all_edges[i])} \subseteq clusters[c])
         => ValidChain(End1(all_edges[i]), End2(all_edges[i])))

\* A run where a CONFIRMED_NON_MATCH edge keeps two clustered records apart
\* although one of them has a valid edge.
C4_Witness ==
  /\ pc = "done"
  /\ \E i \in DOMAIN all_edges :
       /\ IsNonMatch(all_edges[i])
       /\ ClustersOf(End1(all_edges[i])) # {}
       /\ ClustersOf(End2(all_edges[i])) # {}
       /\ ClustersOf(End1(all_edges[i])) # ClustersOf(End2(all_edges[i]))
       /\ End1(all_edges[i]) \in DOMAIN node_map

(* C5  Every universe id that is an endpoint of no valid edge is in        *)
(*     exactly one cluster, and that cluster has size 1.                   *)
C5_SingletonComplete ==
  Derived =>
    \A u \in Universe :
      (\A e \in ValidEdgesOf(all_edges) : End1(e) # u /\ End2(e) # u) =>
        /\ Cardinality(ClustersOf(u)) = 1
        /\ \A c \in ClustersOf(u) : clusters[c] = {u}

\* A run where a universe record has only edges that are not valid.
C5_Witness ==
  /\ pc = "done"
  /\ \E u \in Universe :
       /\ \A e \in ValidEdgesOf(all_edges) : End1(e) # u /\ End2(e) # u
       /\ \E i \in DOMAIN all_edges : u \in {End1(all_edges[i]), End2(all_edges[i])}
       /\ \E c \in DOMAIN clusters : clusters[c] = {u}
  /\ graph.nodes # <<>>

(* C6  A cluster of n > 1 members gets exactly n(n-1)/2 group rows of      *)
(*     type USER_REVIEW_CONNECTED under its id, one for every unordered    *)
(*     pair of distinct members and none for a self-pair.                  *)
C6_PairwiseComplete ==
  GroupsWritten =>
    \A c \in DOMAIN clusters :
      Cardinality(clusters[c]) > 1 =>
        LET n == Cardinality(clusters[c])
            Connected(r) == r.group_cluster_id = c
                              /\ r.method_type = "USER_REVIEW_CONNECTED"
        IN /\ CountRows(GroupRowsNow, Connected) = (n * (n - 1)) \div 2
           /\ \A x \in clusters[c] : \A y \in clusters[c] \ {x} :
                CountRows(GroupRowsNow,
                          LAMBDA r : Connected(r) /\ {r.id_1, r.id_2} = {x, y}) = 1
           /\ CountRows(GroupRowsNow,
                        LAMBDA r : Connected(r) /\ r.id_1 = r.id_2) = 0

\* A committed run with a cluster of three members.
C6_Witness ==
  /\ pc = "done"
  /\ \E c \in DOMAIN clusters : Cardinality(clusters[c]) = 3

(* C7  Universe {A,B,C,D} with edges (A,B,CONFIRMED_MATCH),                *)
(*     (B,C,PENDING_REVIEW), (C,D,CONFIRMED_NON_MATCH) yields exactly the  *)
(*     clusters {A,B,C} and {D}, three group rows for {A,B,C}, one         *)
(*     self-referencing group row for {D}, and exactly the two edge rows   *)
(*     A-B and B-C.                                                        *)
C7_Example ==
  (pc = "done" /\ edgeTable = ExampleEdges /\ Universe = {"A", "B", "C", "D"}) =>
    /\ ClusterSets = {{"A", "B", "C"}, {"D"}}
    /\ Cardinality(DOMAIN clusters) = 2
    /\ BagCardinality(clusterTbl) = 2
    /\ BagCardinality(groupTbl) = 4
    /\ \A pr \in {{"A", "B"}, {"A", "C"}, {"B", "C"}} :
         CountRows(groupTbl,
                   LAMBDA r : /\ {r.id_1, r.id_2} = pr
                              /\ r.method_type = "USER_REVIEW_CONNECTED"
                              /\ r.group_cluster_id = node_to_cluster_id["A"]) = 1
    /\ CountRows(groupTbl,
                 LAMBDA r : /\ r.id_1 = "D" /\ r.id_2 = "D"
                            /\ r.method_type = "USER_REVIEW_ISOLATED"
                            /\ r.group_cluster_id = node_to_cluster_id["D"]) = 1
    /\ BagCardinality(edgeVizTbl) = 2
    /\ {<<r.id_1, r.id_2>> : r \in BagToSet(edgeVizTbl)} = {<<"A", "B">>, <<"B", "C">>}

\* The scenario's run has committed.
C7_Witness ==
  pc = "done" /\ edgeTable = ExampleEdges /\ Universe = {"A", "B", "C", "D"}

\* The cluster and group tables hold one snapshot: one cluster row per
\* cluster id, the ids the group rows refer to, every record under one id.
OneSnapshot(cl, gr) ==
  /\ BagCardinality(cl) = Cardinality({r.id : r \in BagToSet(cl)})
  /\ {r.id : r \in BagToSet(cl)} = {r.group_cluster_id : r \in BagToSet(gr)}
  /\ \A r1 \in BagToSet(gr) : \A r2 \in BagToSet(gr) :
       {r1.id_1, r1.id_2} \cap {r2.id_1, r2.id_2} # {} =>
         r1.group_cluster_id = r2.group_cluster_id

(* C8  A second run on the same edge table and universe commits the same   *)
(*     membership sets as the first, whatever ids are minted and in        *)
(*     whatever order the rows are read, and leaves one snapshot in the    *)
(*     tables, not two.                                                    *)
C8_RerunSamePartition ==
  [][(runs >= 2 /\ pc = "edges" /\ pc' = "done") =>
       /\ TablePartition(groupTbl') = TablePartition(groupTbl)
       /\ OneSnapshot(clusterTbl', groupTbl')]_vars

\* The second run has committed a snapshot of several clusters derived
\* from several edges.
C8_Witness ==
  /\ runs = 2 /\ pc = "done"
  /\ Len(all_edges) >= 2
  /\ Cardinality(TablePartition(groupTbl)) >= 2
  /\ \E c \in DOMAIN clusters : Cardinality(clusters[c]) >= 2

\* What an edge row shows of the edge it was made from.
VizShows(rows) ==
  [i \in DOMAIN rows |-> <<rows[i].id_1, rows[i].id_2, rows[i].confirmed_status>>]

EdgeShows(edges) ==
  [i \in DOMAIN edges |-> <<End1(edges[i]), End2(edges[i]), StatusOf(edges[i])>>]

(* C9  As claimed: a committed run writes exactly one edge row for every   *)
(*     edge whose status is not CONFIRMED_NON_MATCH and none for the       *)
(*     others, with the edge's endpoints and status, in reading order      *)
(*     (stated for edge tables whose statuses are review statuses).        *)
C9_RowPerUnsevered ==
  (pc = "done" /\ \A i \in DOMAIN all_edges : StatusOf(all_edges[i]) \in ReviewStatuses) =>
    /\ VizShows(edge_batch) = EdgeShows(SelectSeq(all_edges, LAMBDA e : ~IsNonMatch(e)))
    /\ edgeVizTbl = SeqToBag(edge_batch)

(* C9  As amended: a committed run writes exactly one edge row for every   *)
(*     edge with two non-empty endpoints whose status is PENDING_REVIEW,   *)
(*     CONFIRMED_MATCH or absent, and none for any other edge; each row    *)
(*     carries the edge's endpoints and its status (PENDING_REVIEW for an  *)
(*     absent one), in reading order.                                      *)
C9_RowPerValidEdge ==
  pc = "done" =>
    /\ VizShows(edge_batch) = EdgeShows(SelectSeq(all_edges, ValidEdge))
    /\ edgeVizTbl = SeqToBag(edge_batch)

\* A committed run that wrote a row for one edge and skipped an unsevered
\* edge with an empty endpoint.
C9_Witness ==
  /\ pc = "done"
  /\ Len(edge_batch) >= 1
  /\ \E i \in DOMAIN all_edges :
       /\ ~IsNonMatch(all_edges[i])
       /\ StatusOf(all_edges[i]) \in ReviewStatuses
       /\ (End1(all_edges[i]) = "" \/ End2(all_edges[i]) = "")

(* C10 The IntegrityError is never returned: when the edge batch is built, *)
(*     every edge kept for visualization has an endpoint in                *)
(*     node_to_cluster_id.                                                 *)
C10_NoIntegrityError ==
  /\ result # "IntegrityError"
  /\ pc = "groups" =>
       \A i \in DOMAIN valid_edges_for_viz :
         \/ valid_edges_for_viz[i].id1 \in DOMAIN node_to_cluster_id
         \/ valid_edges_for_viz[i].id2 \in DOMAIN node_to_cluster_id

\* The edge batch of a run with two valid edges was built and inserted.
C10_Witness ==
  /\ pc = "edges"
  /\ Len(edge_batch) = 2
  /\ result = "none"

----------------------------------------------------------------------------
(* Vocabulary of the graph properties *)

\* The graph, node_map and valid_edges_for_viz are built and not yet consumed.
GraphBuilt == pc \in {"built", "universe"}

\* The state of the builder equals the result of building from edges.
BuiltAsFrom(edges) ==
  LET b == BuildGraphOf(edges)
  IN /\ graph = b.graph
     /\ node_map = b.node_map
     /\ valid_edges_for_viz = b.viz

InUniverse(e) == End1(e) \in Universe /\ End2(e) \in Universe

HasEmptyEndpoint(e) == End1(e) = "" \/ End2(e) = ""

\* Every edge read joins two different records, as the data model expects.
DistinctEndpoints == \A i \in DOMAIN all_edges : End1(all_edges[i]) # End2(all_edges[i])

\* The unordered pair of record ids a graph edge joins.
PairOfEdge(i) == {graph.nodes[graph.edges[i][1]], graph.nodes[graph.edges[i][2]]}

(* C15 As claimed: an edge with an endpoint outside the filtered universe  *)
(*     is excluded entirely: the graph, its nodes and the edges kept for   *)
(*     visualization are those built from the edges inside the universe.   *)
(*     The code breaks it: the builder never consults the universe         *)
(*     (stated for edges between two different records).                   *)
C15_OutsideEdgesExcluded ==
  (GraphBuilt /\ DistinctEndpoints) => BuiltAsFrom(SelectSeq(all_edges, InUniverse))

(* C16 As claimed: the graph keeps at most one edge per unordered pair of  *)
(*     record ids, and its nodes are exactly the ids touched by a valid    *)
(*     edge.  The code breaks the first part: add_edge is called for every *)
(*     valid edge, so a repeated pair gives parallel edges (stated for     *)
(*     edges between two different records).                               *)
C16_MultigraphFree ==
  (GraphBuilt /\ DistinctEndpoints) =>
    /\ \A i \in DOMAIN graph.edges : \A j \in DOMAIN graph.edges :
         i # j => PairOfEdge(i) # PairOfEdge(j)
    /\ Range(graph.nodes) =
         UNION {{End1(e), End2(e)} : e \in ValidEdgesOf(all_edges)}

(* C18 An edge with an empty or missing endpoint id is skipped without     *)
(*     aborting the run: it adds no node, no graph edge and no edge kept   *)
(*     for visualization, the run does not fail, and the partition is the  *)
(*     one derived with that edge absent from the input.                   *)
C18_EmptyEndpointSkipped ==
  /\ pc # "failed"
  /\ GraphBuilt =>
       /\ BuiltAsFrom(SelectSeq(all_edges, LAMBDA e : ~HasEmptyEndpoint(e)))
       /\ "" \notin DOMAIN node_map
  /\ Derived =>
       ClusterSets =
         PartitionOfRun(SelectSeq(all_edges, LAMBDA e : ~HasEmptyEndpoint(e)),
                        Universe)
  /\ pc = "done" =>
       \A r \in BagToSet(edgeVizTbl) : r.id_1 # "" /\ r.id_2 # ""

\* A committed run whose input held an edge with a missing endpoint and a
\* status that makes a connection, next to an edge that entered the graph.
C18_Witness ==
  /\ pc = "done"
  /\ result = "Ok"
  /\ graph.edges # <<>>
  /\ \E i \in DOMAIN all_edges :
       /\ HasEmptyEndpoint(all_edges[i])
       /\ IsValidConnection(StatusOf(all_edges[i]))
       /\ {End1(all_edges[i]), End2(all_edges[i])} \cap Universe # {}

----------------------------------------------------------------------------
(* Vocabulary of the failure properties *)

\* The positions of a call, in the order of the code.
PcOrder ==
  <<"start", "connected", "fetched", "built", "universe", "derived", "tx", "del1",
    "del2", "cleared", "clusters", "groups", "edges", "done">>

Rank(p) == CHOOSE i \in DOMAIN PcOrder : PcOrder[i] = p

\* The errors the step taken from a position can return.
ErrorsAt(p) ==
  CASE p = "start" -> {"Failed to get DB client for reclustering"}
    [] p = "connected" -> {"Failed to fetch edge data for reclustering"}
    [] p = "built" -> {"Failed to fetch all public IDs"}
    [] p = "derived" -> {"Failed to start transaction"}
    [] p \in {"tx", "del1", "del2"} -> {"DELETE failed"}
    [] p = "cleared" -> {"Failed to batch insert cluster records"}
    [] p = "clusters" -> {"Failed to batch insert group records"}
    [] p = "groups" -> {"Failed to batch insert edge visualization records",
                         "IntegrityError"}
    [] p = "edges" -> {"Failed to commit re-clustering transaction"}
    [] OTHER -> {}

\* The errors of the write transaction.
WriteErrors ==
  UNION {ErrorsAt(p) : p \in {"derived", "tx", "del1", "del2", "cleared", "clusters",
                               "groups", "edges"}}

TablesNow == <<clusterTbl, groupTbl, edgeVizTbl>>

(* C11 The snapshot write is atomic: the three output tables change only   *)
(*     in the step that commits successfully, and then to the complete     *)
(*     snapshot of the run (its cluster rows, the memberships of exactly   *)
(*     its clusters, its edge rows); a step that fails leaves them as      *)
(*     they were before the call.                                          *)
C11_Atomic ==
  [][/\ TablesNow' # TablesNow =>
          /\ pc = "edges" /\ pc' = "done" /\ result' = "Ok"
          /\ clusterTbl' = ClusterBatch(clusters)
          /\ TablePartition(groupTbl') = ClusterSets
          /\ edgeVizTbl' = SeqToBag(edge_batch)
     /\ pc' = "failed" => TablesNow' = TablesNow]_vars

\* The second run failed in the group insert, after it had deleted the
\* rows and inserted its clusters; the tables hold the first run's snapshot.
C11_Witness ==
  /\ runs = 2
  /\ pc = "failed"
  /\ result = "Failed to batch insert group records"
  /\ clusterTbl # LegacyClusters
  /\ BagCardinality(clusterTbl) >= 2
  /\ BagCardinality(edgeVizTbl) >= 1

(* C12 As claimed: after a run that fails in a step of the write           *)
(*     transaction, the three output tables hold zero rows.  The code      *)
(*     breaks it: the DELETEs are part of the transaction that is rolled   *)
(*     back, so the rows create_timestamped_tables copied are still there. *)
C12_FailedRunLeavesEmpty ==
  (runs = 1 /\ pc = "failed" /\ result \in WriteErrors) =>
    /\ clusterTbl = EmptyBag
    /\ groupTbl = EmptyBag
    /\ edgeVizTbl = EmptyBag

(* C19 A call is one linear pass without retry: every step moves the call  *)
(*     to the next position of the code or ends it with the error of the   *)
(*     step that failed; no position is taken twice, and after the call    *)
(*     has returned (Ok or an error) none of its steps runs.               *)
C19_LinearNoRetry ==
  [][runs' = runs =>
       /\ pc' # pc =>
            /\ pc \notin {"done", "failed"}
            /\ \/ pc' = "failed" /\ result' \in ErrorsAt(pc)
               \/ /\ pc' # "failed"
                  /\ Rank(pc') = Rank(pc) + 1
                  /\ result' = IF pc' = "done" THEN "Ok" ELSE "none"
       /\ pc' = pc => result' = result]_vars

\* The universe query of a call failed: the edges were read and the graph
\* built, no cluster was derived and no transaction begun.
C19_Witness ==
  /\ pc = "failed"
  /\ result = "Failed to fetch all public IDs"
  /\ all_edges # <<>>
  /\ graph.nodes # <<>>
  /\ clusters = <<>>
  /\ tx = NoTx

(* C20 As claimed: the connection acquired for a read is released when     *)
(*     that read ends, so none is held while the graph is built, the       *)
(*     clusters are derived, or before the write transaction acquires      *)
(*     its own.  The code breaks it: the one connection of line 36 is      *)
(*     held until the call returns.                                        *)
C20_ReleasedBetweenUnits ==
  pc \in {"fetched", "universe", "derived"} => client = "none"

----------------------------------------------------------------------------
(* Vocabulary of the reader and naming properties *)

\* The names of the call's three output tables.
RunTablesNow == RunTables(user_prefix, entity_or_service, timestamp_suffix)

\* The names create_timestamped_tables gives the copies of the three team
\* tables of record type t.
ProvisionedFor(p, t, ts) ==
  LET k == IF t = "entity" THEN 0 ELSE 3
  IN [group |-> target_table_name(p, tables_to_copy[k + 1], ts),
      cluster |-> target_table_name(p, tables_to_copy[k + 2], ts),
      edge |-> target_table_name(p, tables_to_copy[k + 3], ts)]

\* The reader's query succeeded on the three output tables of the call.
ReadOfRunTables ==
  /\ seen # None
  /\ seen[1].rows # None
  /\ seen[1].tables = RunTablesNow

\* The rows create_timestamped_tables copied: what the tables held before
\* the first run.
CopiedRows == [cluster |-> LegacyClusters, group |-> LegacyGroups, edge |-> edgeTable]

\* r is the complete snapshot of one run on the call's inputs: one cluster
\* row per cluster id with the count of its members, the memberships of
\* exactly those ids covering the universe, one edge row per valid edge
\* under one of those ids, and no copied row.
CompleteSnapshot(r) ==
  LET ids == {c.id : c \in BagToSet(r.cluster)}
      MembersOf(i) ==
        UNION {{g.id_1, g.id_2} : g \in {x \in BagToSet(r.group) : x.group_cluster_id = i}}
  IN /\ OneSnapshot(r.cluster, r.group)
     /\ \A c \in BagToSet(r.cluster) : c.entity_count = Cardinality(MembersOf(c.id))
     /\ Universe \subseteq UNION {MembersOf(i) : i \in ids}
     /\ BagToSet(r.cluster) \cap BagToSet(CopiedRows.cluster) = {}
     /\ BagToSet(r.group) \cap BagToSet(CopiedRows.group) = {}
     /\ BagToSet(r.edge) \cap BagToSet(CopiedRows.edge) = {}
     /\ \A e \in BagToSet(r.edge) : e.cluster_id \in ids
     /\ BagCardinality(r.edge) = CountRows(edgeTable, ValidEdge)

(* C13 A query of the call's three output tables, run at any point of the  *)
(*     call (before it, between any two of its statements, after a         *)
(*     failure, after the commit, during a later call), returns either     *)
(*     the rows the tables held before the first run or the complete       *)
(*     snapshot of a committed run, never a mix and never a part.          *)
C13_NoMixedRead ==
  ReadOfRunTables =>
    \/ seen[1].rows[1] = CopiedRows
    \/ CompleteSnapshot(seen[1].rows[1])

\* A query that ran between the group insert and the edge insert of the
\* second call returned the first call's snapshot.
C13_Witness ==
  /\ ReadOfRunTables
  /\ runs = 2
  /\ seen[1].during = "groups"
  /\ seen[1].rows[1] # CopiedRows
  /\ BagCardinality(seen[1].rows[1].cluster) >= 2
  /\ BagCardinality(seen[1].rows[1].edge) >= 1

(* C17 As claimed: for each of the three tables the name run_reclustering  *)
(*     writes equals the name create_timestamped_tables provisions and     *)
(*     the name the export reader called for the same analyst and record   *)
(*     type reads.  The code breaks the last part: the readers put the     *)
(*     opinion name between the analyst prefix and the table suffix.       *)
C17_SharedNames ==
  /\ RunTablesNow = ProvisionedFor(user_prefix, entity_or_service, timestamp_suffix)
  /\ (seen # None /\ seen[1].user_prefix = user_prefix
        /\ seen[1].record_type = entity_or_service) =>
       seen[1].tables = RunTablesNow

----------------------------------------------------------------------------
(* Vocabulary of the two-call properties *)

\* The set of the three table names of a call.
NameSet(c) ==
  LET n == RunTables(c.user_prefix, c.entity_or_service, c.timestamp_suffix)
  IN {n.cluster, n.group, n.edge}

\* The call c has committed, and the export schema holds under its three
\* names the snapshot c computed from its own inputs.
HoldsOwnSnapshot(c) ==
  LET n == RunTables(c.user_prefix, c.entity_or_service, c.timestamp_suffix)
  IN /\ db[n.cluster] = ClusterBatch(c.clusters)
     /\ TablePartition(db[n.group]) =
          PartitionOfRun(c.all_edges, BagToSet(UniverseQuery(c.publicTable, whitelist)))
     /\ {c.clusters[i] : i \in DOMAIN c.clusters} = TablePartition(db[n.group])
     /\ db[n.edge] = SeqToBag(c.edge_batch)

(* C14 Two calls for different (user_prefix, entity_or_service) pairs      *)
(*     write disjoint tables: the three names of a call are distinct and   *)
(*     none equals a name of the other call; and in whatever way the       *)
(*     steps of the two calls interleave, once both have committed each    *)
(*     pair's tables hold the snapshot its own call computed from its own  *)
(*     inputs, as they would after running the calls one after the other.  *)
C14_DisjointTables ==
  other # None =>
    /\ Cardinality(NameSet(ThisCall)) = 3
    /\ Cardinality(NameSet(other[1])) = 3
    /\ NameSet(ThisCall) \cap NameSet(other[1]) = {}
    /\ (pc = "done" /\ other[1].pc = "done") =>
         HoldsOwnSnapshot(ThisCall) /\ HoldsOwnSnapshot(other[1])
    /\ pc = "done" => HoldsOwnSnapshot(ThisCall)

\* The two calls overlapped: the waiting call derived its clusters first
\* (its cluster ids are the older ones) and is still inside its write
\* transaction, all rows inserted, while this call has already committed.
C14_Witness ==
  /\ other # None
  /\ pc = "done"
  /\ other[1].pc = "edges" /\ other[1].tx.open
  /\ entity_or_service # other[1].entity_or_service
  /\ DOMAIN clusters # {} /\ DOMAIN other[1].clusters # {}
  /\ \A i \in DOMAIN clusters : \A j \in DOMAIN other[1].clusters : j < i
  /\ HoldsOwnSnapshot(ThisCall)

----------------------------------------------------------------------------
(* C22 The universe query returns exactly the records whose dataset tag is *)
(*     in the whitelist, every record when the whitelist is empty; for     *)
(*     every start index create_dataset_filter_clause returns "1=1"        *)
(*     without parameters for the empty whitelist, and otherwise one       *)
(*     placeholder per entry, numbered consecutively from the start index, *)
(*     with the entries as parameters in the same order.                   *)
C22_FilterAdmits ==
  /\ pc = "universe" =>
       Range(original_rows) =
         {r.id : r \in {x \in BagToSet(publicTable) :
                          whitelist = <<>> \/ x.source_system \in Range(whitelist)}}
  /\ \A k \in 1..MaxStart :
       LET f == create_dataset_filter_clause(whitelist, k)
       IN IF whitelist = <<>>
            THEN f.clause = "1=1" /\ f.placeholders = <<>> /\ f.params = <<>>
            ELSE /\ f.clause # "1=1"
                 /\ Len(f.placeholders) = Len(whitelist)
                 /\ \A i \in DOMAIN whitelist : f.placeholders[i] = k + i - 1
                 /\ f.params = whitelist

\* The universe was read under a whitelist of two different datasets that
\* admits one record and leaves others out.
C22_Witness ==
  /\ pc = "universe"
  /\ Len(whitelist) = 2
  /\ whitelist[1] # whitelist[2]
  /\ original_rows # <<>>
  /\ Range(original_rows) # {r.id : r \in BagToSet(publicTable)}

----------------------------------------------------------------------------
(* C23 The details payload of the edge row written for a valid edge is the *)
(*     edge's own payload, unmodified, when it has one; when it has none,  *)
(*     it is the synthesized payload with an empty contributing_methods    *)
(*     list and the three confidence and weight fields equal to 1.0.       *)
C23_DetailsKept ==
  pc \in {"edges", "done"} =>
    LET ve == SelectSeq(all_edges, ValidEdge)
    IN /\ Len(edge_batch) = Len(ve)
       /\ \A i \in DOMAIN ve :
            edge_batch[i].details =
              IF ve[i].details # None THEN ve[i].details[1]
              ELSE [contributing_methods |-> [arr |-> <<>>],
                    total_confidence |-> [num |-> DefaultWeight],
                    pre_rl_total_confidence |-> [num |-> DefaultWeight],
                    calculated_edge_weight |-> [num |-> DefaultWeight]]
       /\ pc = "done" => edgeVizTbl = SeqToBag(edge_batch)

\* A committed run wrote one row with a synthesized payload and one row
\* with a payload of the edge table that lacks the weight.
C23_Witness ==
  /\ pc = "done"
  /\ \E i, j \in DOMAIN edge_batch :
       /\ all_edges[i].details = None
       /\ all_edges[j].details # None
       /\ "calculated_edge_weight" \notin DOMAIN edge_batch[j].details
       /\ Len(all_edges) = Len(edge_batch)

----------------------------------------------------------------------------
(* C24 A group row is self-referencing iff its method_type is              *)
(*     USER_REVIEW_ISOLATED iff its cluster has exactly one member; every  *)
(*     cluster of one member has exactly one group row, whether the        *)
(*     cluster is a graph component or a completed singleton.              *)
C24_IsolatedIffSingle ==
  GroupsWritten =>
    /\ \A r \in BagToSet(GroupRowsNow) :
         /\ r.group_cluster_id \in DOMAIN clusters
         /\ (r.id_1 = r.id_2) <=> (r.method_type = "USER_REVIEW_ISOLATED")
         /\ (r.method_type = "USER_REVIEW_ISOLATED") <=>
              (Cardinality(clusters[r.group_cluster_id]) = 1)
         /\ r.method_type \in {"USER_REVIEW_ISOLATED", "USER_REVIEW_CONNECTED"}
    /\ \A c \in DOMAIN clusters :
         Cardinality(clusters[c]) = 1 =>
           /\ CountRows(GroupRowsNow, LAMBDA r : r.group_cluster_id = c) = 1
           /\ CountRows(GroupRowsNow,
                        LAMBDA r : r.group_cluster_id = c
                                     /\ r.method_type = "USER_REVIEW_CONNECTED") = 0

\* A committed run with a one-member cluster that is a graph component (a
\* record whose only valid edge is a self-loop), a one-member cluster
\* completed from the universe, and their two self-referencing rows.
C24_Witness ==
  /\ pc = "done"
  /\ \E c, d \in DOMAIN clusters :
       /\ Cardinality(clusters[c]) = 1
       /\ Cardinality(clusters[d]) = 1
       /\ clusters[c] \subseteq DOMAIN node_map
       /\ clusters[d] \cap DOMAIN node_map = {}
       /\ \A x \in {c, d} : \E r \in BagToSet(groupTbl) :
            r.group_cluster_id = x /\ r.id_1 = r.id_2 /\ {r.id_1} = clusters[x]

----------------------------------------------------------------------------
(* C25 For every edge row written, both endpoints belong to the cluster    *)
(*     whose id the row carries, so resolving through either endpoint      *)
(*     gives that id, and the id is the id of a cluster row inserted in    *)
(*     the same run.                                                       *)
C25_EdgeInOneCluster ==
  pc \in {"edges", "done"} =>
    /\ \A i \in DOMAIN edge_batch :
         LET r == edge_batch[i]
         IN /\ r.cluster_id \in DOMAIN clusters
            /\ {r.id_1, r.id_2} \subseteq clusters[r.cluster_id]
            /\ {r.id_1, r.id_2} \subseteq DOMAIN node_to_cluster_id
            /\ node_to_cluster_id[r.id_1] = r.cluster_id
            /\ node_to_cluster_id[r.id_2] = r.cluster_id
            /\ \E c \in BagToSet(ClusterRowsNow) : c.id = r.cluster_id
    /\ pc = "done" => edgeVizTbl = SeqToBag(edge_batch)

\* A committed run wrote edge rows of two different clusters, one of them
\* between two different records.
C25_Witness ==
  /\ pc = "done"
  /\ \E i, j \in DOMAIN edge_batch :
       /\ edge_batch[i].cluster_id # edge_batch[j].cluster_id
       /\ edge_batch[i].id_1 # edge_batch[i].id_2
       /\ edge_batch[i] \in BagToSet(edgeVizTbl)
       /\ edge_batch[j] \in BagToSet(edgeVizTbl)

(* C26 Every group row written links two records of the cluster whose id   *)
(*     it carries, that id is the id of a cluster row inserted in the same *)
(*     run, and every member of every cluster is an endpoint of a group    *)
(*     row of its own cluster and of no other cluster's rows.              *)
C26_GroupRowsCoverClusters ==
  GroupsWritten =>
    /\ \A r \in BagToSet(GroupRowsNow) :
         /\ r.group_cluster_id \in DOMAIN clusters
         /\ {r.id_1, r.id_2} \subseteq clusters[r.group_cluster_id]
         /\ \E c \in BagToSet(ClusterRowsNow) : c.id = r.group_cluster_id
    /\ \A c \in DOMAIN clusters : \A m \in clusters[c] :
         {r.group_cluster_id : r \in {x \in BagToSet(GroupRowsNow) :
                                        m \in {x.id_1, x.id_2}}} = {c}

\* A committed run whose group table holds the rows of a cluster of three
\* records and no row of the copied team cluster.
C26_Witness ==
  /\ pc = "done"
  /\ \E c \in DOMAIN clusters :
       /\ Cardinality(clusters[c]) = 3
       /\ CountRows(groupTbl, LAMBDA r : r.group_cluster_id = c) = 3
  /\ \A r \in BagToSet(groupTbl) : r.group_cluster_id # 0

----------------------------------------------------------------------------
(* C27 When acquiring the connection, the edge query or the universe query *)
(*     fails, the call returns the error before a transaction is opened:   *)
(*     no statement of the write has run and the three output tables are   *)
(*     exactly as they were before the call.                               *)
ReadErrors == ErrorsAt("start") \cup ErrorsAt("connected") \cup ErrorsAt("built")

C27_ReadFailureWritesNothing ==
  [][/\ pc \in {"start", "connected", "fetched", "built", "universe", "derived"} =>
          tx = NoTx
     /\ (pc # "failed" /\ pc' = "failed" /\ result' \in ReadErrors) =>
          /\ pc \in {"start", "connected", "built"}
          /\ tx = NoTx /\ tx' = NoTx
          /\ TablesNow' = TablesNow
          /\ db' = db
          /\ clusters' = <<>> /\ edge_batch' = <<>>]_vars

\* The edge query of a second run failed: nothing was read, and the tables
\* hold the snapshot of the first run.
C27_Witness ==
  /\ runs = 2
  /\ pc = "failed"
  /\ result = "Failed to fetch edge data for reclustering"
  /\ all_edges = <<>>
  /\ tx = NoTx
  /\ clusterTbl # LegacyClusters
  /\ BagCardinality(groupTbl) >= 2

----------------------------------------------------------------------------
(* C29 An edge without a status is treated as PENDING_REVIEW: it joins its *)
(*     two endpoints into one cluster and is written as an edge row with   *)
(*     status PENDING_REVIEW; an edge whose status is neither              *)
(*     PENDING_REVIEW nor CONFIRMED_MATCH is dropped like a                *)
(*     CONFIRMED_NON_MATCH edge: it gets no row and the clusters are those *)
(*     of the same input with that status replaced by CONFIRMED_NON_MATCH. *)
HasEndpoints(e) == End1(e) # "" /\ End2(e) # ""

StatusAbsent(e) == e.confirmed_status = None

StatusOther(e) ==
  /\ e.confirmed_status # None
  /\ e.confirmed_status[1] \notin {PENDING_REVIEW, CONFIRMED_MATCH}

C29_AbsentIsPending ==
  /\ Derived =>
       /\ \A i \in DOMAIN all_edges :
            (HasEndpoints(all_edges[i]) /\ StatusAbsent(all_edges[i])) =>
              \E c \in DOMAIN clusters :
                {End1(all_edges[i]), End2(all_edges[i])} \subseteq clusters[c]
       /\ ClusterSets =
            PartitionOfRun(
              [i \in DOMAIN all_edges |->
                 IF StatusOther(all_edges[i])
                   THEN [all_edges[i] EXCEPT !.confirmed_status = Some(CONFIRMED_NON_MATCH)]
                   ELSE all_edges[i]],
              Universe)
  /\ pc \in {"edges", "done"} =>
       LET kept == SelectSeq(all_edges,
                             LAMBDA e : HasEndpoints(e) /\ ~StatusOther(e))
       IN /\ Len(edge_batch) = Len(kept)
          /\ \A i \in DOMAIN kept :
               /\ edge_batch[i].id_1 = End1(kept[i])
               /\ edge_batch[i].id_2 = End2(kept[i])
               /\ edge_batch[i].confirmed_status =
                    IF StatusAbsent(kept[i]) THEN PENDING_REVIEW
                    ELSE kept[i].confirmed_status[1]
          /\ pc = "done" => edgeVizTbl = SeqToBag(edge_batch)

\* A committed run read an edge without a status between two different
\* records and an edge with a status unknown to the review: the first is
\* written as PENDING_REVIEW and joins its endpoints, the second is not
\* written and its endpoints are in different clusters.
C29_Witness ==
  /\ pc = "done"
  /\ \E i, j \in DOMAIN all_edges :
       /\ StatusAbsent(all_edges[i]) /\ HasEndpoints(all_edges[i])
       /\ End1(all_edges[i]) # End2(all_edges[i])
       /\ StatusOther(all_edges[j]) /\ HasEndpoints(all_edges[j])
       /\ all_edges[j].confirmed_status # Some(CONFIRMED_NON_MATCH)
       /\ ClustersOf(End1(all_edges[j])) # ClustersOf(End2(all_edges[j]))
       /\ \E r \in BagToSet(edgeVizTbl) :
            /\ r.id_1 = End1(all_edges[i]) /\ r.id_2 = End2(all_edges[i])
            /\ r.confirmed_status = PENDING_REVIEW
       /\ BagCardinality(edgeVizTbl) = 1

----------------------------------------------------------------------------
(* C30 Component derivation, once the universe is read, terminates on      *)
(*     every finite graph, with cycles, self-loops and parallel edges:     *)
(*     the stack empties and step 4 ends;                                  *)
(*     every graph node is inserted into visited exactly once and belongs  *)
(*     to exactly one component; two nodes share a component iff a chain   *)
(*     of valid edges joins them.  The node loop taken one iteration at a  *)
(*     time ends in the state that ComponentsFrom computes.                *)
DfsComponentsOf(id) == {c \in DOMAIN dfs.d.clusters : id \in dfs.d.clusters[c]}

\* Step 4 has ended with the stack empty, every graph node inserted into
\* visited once, in one component, and components that are the maximal
\* connected sets.
DfsEnded ==
  /\ pc = "derived"
  /\ dfs.phase = "done"
  /\ dfs.stack = <<>>
  /\ Cardinality(Range(dfs.inserted)) = Len(dfs.inserted)
  /\ Range(dfs.inserted) = Range(graph.nodes)
  /\ dfs.d = ComponentsFrom(graph, 1,
               [NoDfs.d EXCEPT !.uuid = dfs.d.uuid - Cardinality(DOMAIN dfs.d.clusters)])
  /\ \A x \in Range(graph.nodes) :
       /\ Cardinality(DfsComponentsOf(x)) = 1
       /\ dfs.d.n2c[x] \in DfsComponentsOf(x)
       /\ \A y \in Range(graph.nodes) :
            (DfsComponentsOf(x) = DfsComponentsOf(y)) <=> ValidChain(x, y)

C30_DfsTerminates == (pc = "universe") ~> DfsEnded

\* Step 4 has ended on a graph of three records joined in a cycle of three
\* edges, all in one component.
C30_Witness ==
  /\ dfs.phase = "done"
  /\ Len(graph.nodes) = 3
  /\ Len(graph.edges) = 3
  /\ Cardinality({{graph.edges[k][1], graph.edges[k][2]} : k \in 1..3}) = 3
  /\ \A k \in 1..3 : graph.edges[k][1] # graph.edges[k][2]
  /\ Cardinality(DOMAIN dfs.d.clusters) = 1
  /\ Len(dfs.inserted) = 3

----------------------------------------------------------------------------
(* C21 As claimed: a run writes the snapshot of one single point in time,  *)
(*     its start: the edges it read are the edge table as it stood when    *)
(*     the edge query ran, and the partition it writes is the one implied  *)
(*     by those edges and the universe as it stood at that same moment,    *)
(*     whatever is committed to either table afterwards.  The code breaks  *)
(*     it: the universe is read by a later statement and shows a change    *)
(*     committed after the edge read.                                      *)
C21_SnapshotAtStart ==
  pc = "done" =>
    /\ SeqToBag(all_edges) = start_db.edgeTable
    /\ TablePartition(groupTbl) =
         PartitionOfRun(all_edges, BagToSet(UniverseQuery(start_db.publicTable, whitelist)))

----------------------------------------------------------------------------
(* C28 As claimed: when two calls for the same triple run concurrently,    *)
(*     however their steps interleave, once both have committed the three  *)
(*     tables hold the snapshot of exactly one of them: every record is in *)
(*     exactly one cluster and no table holds rows of both calls.  The     *)
(*     code breaks it: nothing serializes the two calls, and a DELETE does *)
(*     not remove the rows the other call inserted and committed while the *)
(*     DELETE was waiting.                                                 *)
C28_OneRunsSnapshot ==
  (other # None /\ pc = "done" /\ other[1].pc = "done") =>
    /\ HoldsOwnSnapshot(ThisCall) \/ HoldsOwnSnapshot(other[1])
    /\ OneSnapshot(clusterTbl, groupTbl)
    /\ ~(/\ \E r \in BagToSet(clusterTbl) : r.id \in DOMAIN clusters
         /\ \E r \in BagToSet(clusterTbl) : r.id \in DOMAIN other[1].clusters)

====
